---- MODULE Spec2Model ----
(***************************************************************************)
(* Model of setup_macos_dev.py: the step catalog, the three selection      *)
(* surfaces (checkbox menu, line-based menu, command-line flags), the      *)
(* confirmation prompt, the platform check, the executor loop of main()    *)
(* and the success / failure ledger.                                       *)
(*                                                                         *)
(* Strings that the program parses (the --select value, a line typed at    *)
(* the line-based menu) are sequences of one-character strings, so that    *)
(* split(','), strip(), lower() and int() are computed as Python computes  *)
(* them.                                                                   *)
(***************************************************************************)
EXTENDS Integers, Sequences, FiniteSets, TLC

\* ------------------------------------------------------------------ bounds
\* Longest --select value / typed list enumerated character by character.
MaxSelectLen == 3
\* Most steps of one run that end other than by their first-run outcome.
MaxFaults == 1
\* Most keys pressed in the checkbox menu before Enter or Q.
MaxKeys == 2
\* Most lines read at the line-based menu's prompt in one session.
MaxPrompts == 2

\* Longest line typed at the line-based menu, beyond the sampled lines.
MaxMenuLen == 2
\* Most runs of steps and helpers against one shell profile or supervisor.
MaxRuns == 2
\* Longest shell profile enumerated piece by piece.
MaxProfileLen == 1

\* ------------------------------------------------------- values and strings
None == "None"

Digits == {"0", "1", "5", "6"}
Chars == Digits \cup {",", " ", "-"}

DigitVal(c) ==
  CASE c = "0" -> 0 [] c = "1" -> 1 [] c = "5" -> 5 [] c = "6" -> 6 [] OTHER -> 0

StringsOver(chars, n) == UNION {[1..k -> chars] : k \in 0..n}
Strings(n) == StringsOver(Chars, n)

Whitespace == {" "}

\* str.strip(): leading and trailing whitespace removed.
RECURSIVE LStrip(_)
LStrip(s) ==
  IF s # <<>> /\ Head(s) \in Whitespace THEN LStrip(Tail(s)) ELSE s

RECURSIVE RStrip(_)
RStrip(s) ==
  IF s # <<>> /\ s[Len(s)] \in Whitespace
    THEN RStrip(SubSeq(s, 1, Len(s) - 1))
    ELSE s

Strip(s) == RStrip(LStrip(s))

\* str.lower() on the characters the model types.
LowerChar(c) ==
  CASE c = "A" -> "a" [] c = "L" -> "l" [] c = "N" -> "n" [] c = "O" -> "o"
    [] c = "E" -> "e" [] c = "Q" -> "q" [] c = "Y" -> "y" [] c = "S" -> "s"
    [] OTHER -> c

\* Mutant of Lower: the case of the text is kept.
LowerKeepsCase(s) == s

Lower(s) == [k \in 1..Len(s) |-> LowerChar(s[k])]

\* str.split(','): the pieces between commas, empty pieces kept; the split of
\* the empty string is one empty piece.
RECURSIVE SplitFrom(_, _)
SplitFrom(s, cur) ==
  IF s = <<>> THEN <<cur>>
  ELSE IF Head(s) = "," THEN <<cur>> \o SplitFrom(Tail(s), <<>>)
  ELSE SplitFrom(Tail(s), Append(cur, Head(s)))

Split(s) == SplitFrom(s, <<>>)

\* The value of a non-empty run of decimal digits.
RECURSIVE DigitsValue(_)
DigitsValue(s) ==
  IF s = <<>> THEN 0
  ELSE 10 * DigitsValue(SubSeq(s, 1, Len(s) - 1)) + DigitVal(s[Len(s)])

AllDigits(s) == s # <<>> /\ \A k \in 1..Len(s) : s[k] \in Digits

\* int(x): surrounding whitespace ignored, one optional sign, then digits;
\* anything else raises ValueError (ok = FALSE).
ParseInt(x) ==
  LET t == Strip(x)
      neg == t # <<>> /\ Head(t) = "-"
      body == IF neg THEN Tail(t) ELSE t
  IN IF AllDigits(body)
       THEN [ok |-> TRUE, val |-> IF neg THEN 0 - DigitsValue(body) ELSE DigitsValue(body)]
       ELSE [ok |-> FALSE, val |-> 0]

\* ------------------------------------------------------------------ ledger
\* One call of add_success / add_failure made by a step: which list it
\* appends to, and the text (a tuple of the pieces of the formatted string).
Success(text) == [kind |-> "success", text |-> text]
Failure(text) == [kind |-> "failure", text |-> text]

\* The ways one call of a step's action can end: the ledger calls it made,
\* in order, and whether it returned True, returned False or raised.
Returns(items, value) ==
  [items |-> items, ret |-> IF value THEN "True" ELSE "False", exc |-> ""]
Raises(items, e) == [items |-> items, ret |-> "raise", exc |-> e]

\* A helper's result after the caller has already made the calls in prefix.
After(prefix, outcomes) == {[o EXCEPT !.items = prefix \o o.items] : o \in outcomes}

\* subprocess.run without a shell raises OSError subclasses other than
\* FileNotFoundError (PermissionError, ...), which run_command does not catch.
CommandErrors == {"PermissionError"}
\* What an except-Exception block of a step can catch and format.
CaughtErrors == {"OSError"}

\* -------------------------------------------------------------- step bodies
\* Mutant of install_homebrew: the early return after "already installed" is
\* missing, so the install runs as well.
install_homebrew_no_return ==
  { Returns(<<Success(<<"Homebrew already installed">>),
              Success(<<"Homebrew installed">>)>>, TRUE),
    Returns(<<Success(<<"Homebrew installed">>)>>, TRUE),
    Returns(<<Failure(<<"Homebrew installation failed">>)>>, FALSE) }

install_homebrew ==
  { Returns(<<Success(<<"Homebrew already installed">>)>>, TRUE),
    Returns(<<Success(<<"Homebrew installed">>)>>, TRUE),
    Returns(<<Failure(<<"Homebrew installation failed">>)>>, FALSE) }

install_python_via_homebrew ==
  { Raises(<<>>, e) : e \in CommandErrors }
  \cup
  { Returns(<<Failure(<<"Python installation failed">>)>>, FALSE),
    Returns(<<Success(<<"Python installed and alias configured">>)>>, TRUE),
    Returns(<<Success(<<"Python installed (alias setup failed)">>)>>, TRUE) }

install_oh_my_zsh ==
  { Returns(<<Success(<<"Oh My Zsh already installed">>)>>, TRUE),
    Returns(<<Success(<<"Oh My Zsh installed">>)>>, TRUE),
    Returns(<<Failure(<<"Oh My Zsh installation failed">>)>>, FALSE) }

copy_zshrc ==
  { Returns(<<Failure(<<".zshrc file not found at ", "source_zshrc">>)>>, FALSE),
    Returns(<<Success(<<".zshrc copied to ", "dest_zshrc">>)>>, TRUE) }
  \cup
  { Returns(<<Failure(<<"Failed to copy .zshrc: ", e>>)>>, FALSE) : e \in CaughtErrors }

setup_nvm_and_node ==
  { Returns(<<Failure(<<"NVM script not found after installation">>)>>, FALSE),
    Returns(<<Success(<<"Node.js LTS installed via NVM">>)>>, TRUE),
    Returns(<<Success(<<"Node.js LTS installed via NVM (fallback method)">>)>>, TRUE),
    Returns(<<Failure(<<"Node.js installation via NVM failed">>)>>, FALSE) }
  \cup
  { Returns(<<Failure(<<"NVM setup failed: ", e>>)>>, FALSE) : e \in CaughtErrors }

install_nvm ==
  After(<<Success(<<"NVM already installed">>)>>, setup_nvm_and_node)
  \cup
  After(<<Success(<<"NVM installed">>)>>, setup_nvm_and_node)
  \cup
  { Returns(<<Failure(<<"NVM installation failed">>)>>, FALSE) }

install_iterm ==
  { Raises(<<>>, e) : e \in CommandErrors }
  \cup
  { Returns(<<Success(<<"iTerm2 installed">>)>>, TRUE),
    Returns(<<Failure(<<"iTerm2 installation failed">>)>>, FALSE) }

install_zsh ==
  { Returns(<<Success(<<"ZSH already default shell">>)>>, TRUE) }
  \cup
  { Raises(<<>>, e) : e \in CommandErrors }
  \cup
  { Returns(<<Success(<<"ZSH installed and set as default shell">>)>>, TRUE),
    Returns(<<Success(<<"ZSH installed (manual shell change required)">>)>>, TRUE),
    Returns(<<Failure(<<"ZSH installation failed">>)>>, FALSE) }

install_claude_code ==
  { Raises(<<>>, e) : e \in CommandErrors }
  \cup
  { Returns(<<Success(<<"Claude Code installed via Homebrew">>)>>, TRUE),
    Returns(<<Success(<<"Claude Code installed via official installer">>)>>, TRUE),
    Returns(<<Failure(<<"Claude Code installation failed">>)>>, FALSE) }

setup_vscode_cli ==
  { Returns(<<Success(<<"'code' command already available">>)>>, TRUE),
    Returns(<<Failure(<<"VS Code binary not found">>)>>, FALSE),
    Returns(<<Success(<<"'code' command set up via ", "creating symlink in /usr/local/bin">>)>>, TRUE),
    Returns(<<Success(<<"'code' command set up via ", "creating symlink in homebrew bin">>)>>, TRUE),
    Returns(<<Success(<<"'code' command added to PATH">>)>>, TRUE),
    Returns(<<Failure(<<"Could not set up 'code' command">>)>>, FALSE) }

install_vscode ==
  After(<<Success(<<"VS Code already installed">>)>>, setup_vscode_cli)
  \cup
  { Raises(<<>>, e) : e \in CommandErrors }
  \cup
  After(<<Success(<<"VS Code installed">>)>>, setup_vscode_cli)
  \cup
  { Returns(<<Failure(<<"VS Code installation failed">>)>>, FALSE) }

\* One extension of desired_extensions: already listed, installed and
\* verified, installed but not verified, or the install command failed.
ExtensionResults == {"already", "installed", "unverified", "failed"}

ExtensionSuccess(name, r) ==
  IF r = "already" THEN <<name, " (already installed)">>
  ELSE IF r = "installed" THEN <<"Installed ", name>>
  ELSE <<>>

ExtensionFailed(name, r) ==
  IF r = "unverified" THEN <<"Installation verification failed for ", name>>
  ELSE IF r = "failed" THEN <<"Failed to install ", name>>
  ELSE <<>>

configure_vscode_extensions ==
  { Returns(<<Failure(<<"VS Code extensions (code command not available)">>)>>, FALSE) }
  \cup
  { Raises(<<>>, e) : e \in CommandErrors }
  \cup
  { LET extensions_success ==
          ExtensionSuccess("Claude Code for VS Code", r1)
            \o ExtensionSuccess("Python extension", r2)
        extensions_failed ==
          ExtensionFailed("Claude Code for VS Code", r1)
            \o ExtensionFailed("Python extension", r2)
    IN Returns(
         (IF extensions_success # <<>>
            THEN <<Success(<<"VS Code extensions: ">> \o extensions_success)>>
            ELSE <<>>)
         \o
         (IF extensions_failed # <<>>
            THEN <<Failure(<<"Some VS Code extensions failed: ">> \o extensions_failed)>>
            ELSE <<>>),
         Len(extensions_failed) = 0)
    : r1 \in ExtensionResults, r2 \in ExtensionResults }

install_github_cli ==
  { Raises(<<>>, e) : e \in CommandErrors }
  \cup
  { Returns(<<Success(<<"GitHub CLI installed">>)>>, TRUE),
    Returns(<<Failure(<<"GitHub CLI installation failed">>)>>, FALSE) }

install_dark_mode_toggle ==
  { Returns(<<Success(<<"ThemeToggle already installed">>)>>, TRUE),
    Returns(<<Failure(<<"ThemeToggle installation failed - Xcode not found">>)>>, FALSE),
    Returns(<<Failure(<<"ThemeToggle installation failed - Could not configure Xcode">>)>>, FALSE),
    Returns(<<Failure(<<"ThemeToggle installation failed - Xcode not properly installed">>)>>, FALSE),
    Returns(<<Failure(<<"ThemeToggle installation failed - project not found">>)>>, FALSE),
    Returns(<<Failure(<<"ThemeToggle build failed">>)>>, FALSE),
    Returns(<<Failure(<<"ThemeToggle build failed - app not found">>)>>, FALSE),
    \* copytree raised before add_success
    Returns(<<Failure(<<"ThemeToggle installation failed">>)>>, FALSE),
    Returns(<<Success(<<"ThemeToggle installed successfully">>)>>, TRUE),
    \* input() raised EOFError after add_success, inside the same try block
    Returns(<<Success(<<"ThemeToggle installed successfully">>),
              Failure(<<"ThemeToggle installation failed">>)>>, FALSE) }

setup_github_cli ==
  { Raises(<<>>, "EOFError") }
  \cup
  { Raises(<<>>, e) : e \in CommandErrors }
  \cup
  { Returns(<<Success(<<"GitHub CLI authentication completed">>)>>, TRUE),
    Returns(<<Failure(<<"GitHub CLI authentication failed">>)>>, FALSE) }

setup_kill_apple_media_tracking ==
  { Returns(<<Failure(<<"killapplemediatracking.sh not found in background_scripts directory">>)>>, FALSE),
    Returns(<<Success(<<"Apple media tracking killer script installed and started">>)>>, TRUE),
    Returns(<<Success(<<"Apple media tracking killer script installed (will start on next login)">>)>>, TRUE) }
  \cup
  { Returns(<<Failure(<<"Failed to setup Apple media tracking killer: ", e>>)>>, FALSE)
    : e \in CaughtErrors \cup CommandErrors }

setup_download_recycler ==
  { Returns(<<Failure(<<"download_recycler.sh not found in background_scripts directory">>)>>, FALSE),
    Returns(<<Success(<<"Download Recycler installed and scheduled (runs daily at 9:00 AM)">>)>>, TRUE),
    Returns(<<Success(<<"Download Recycler installed (will start on next login)">>)>>, TRUE) }
  \cup
  { Returns(<<Failure(<<"Failed to setup Download Recycler: ", e>>)>>, FALSE)
    : e \in CaughtErrors \cup CommandErrors \cup {"EOFError"} }

\* ----------------------------------------------------------------- catalog
\* get_installation_steps(): (name, description, action), in this order.
get_installation_steps ==
  << [name |-> "Homebrew", description |-> "Package manager for macOS", func |-> "install_homebrew"],
     [name |-> "Python via Homebrew", description |-> "Python development environment", func |-> "install_python_via_homebrew"],
     [name |-> "ZSH Shell", description |-> "Z Shell (should already be default)", func |-> "install_zsh"],
     [name |-> "Oh My Zsh", description |-> "ZSH framework for terminal customization", func |-> "install_oh_my_zsh"],
     [name |-> "Copy .zshrc config", description |-> "Custom ZSH configuration file", func |-> "copy_zshrc"],
     [name |-> "NVM & Node.js LTS", description |-> "Node Version Manager and Node.js", func |-> "install_nvm"],
     [name |-> "iTerm2", description |-> "Enhanced terminal emulator", func |-> "install_iterm"],
     [name |-> "Claude Code", description |-> "Claude AI coding assistant", func |-> "install_claude_code"],
     [name |-> "VS Code", description |-> "Visual Studio Code editor", func |-> "install_vscode"],
     [name |-> "VS Code Extensions", description |-> "Claude Code and Python extensions", func |-> "configure_vscode_extensions"],
     [name |-> "GitHub CLI", description |-> "GitHub command line tool", func |-> "install_github_cli"],
     [name |-> "GitHub Authentication", description |-> "Sign in to GitHub CLI", func |-> "setup_github_cli"],
     [name |-> "Dark Mode Toggle", description |-> "NightOwl menu bar app for dark/light mode switching", func |-> "install_dark_mode_toggle"],
     [name |-> "Apple Media Tracking Killer", description |-> "Background process to disable media tracking", func |-> "setup_kill_apple_media_tracking"],
     [name |-> "Download Recycler", description |-> "Auto-clean old files from Downloads folder", func |-> "setup_download_recycler"] >>

NumSteps == Len(get_installation_steps)

\* Calling the bound method func: the ways the call can end when it is not
\* interrupted.
Call(func) ==
  CASE func = "install_homebrew" -> install_homebrew
    [] func = "install_python_via_homebrew" -> install_python_via_homebrew
    [] func = "install_zsh" -> install_zsh
    [] func = "install_oh_my_zsh" -> install_oh_my_zsh
    [] func = "copy_zshrc" -> copy_zshrc
    [] func = "install_nvm" -> install_nvm
    [] func = "install_iterm" -> install_iterm
    [] func = "install_claude_code" -> install_claude_code
    [] func = "install_vscode" -> install_vscode
    [] func = "configure_vscode_extensions" -> configure_vscode_extensions
    [] func = "install_github_cli" -> install_github_cli
    [] func = "setup_github_cli" -> setup_github_cli
    [] func = "install_dark_mode_toggle" -> install_dark_mode_toggle
    [] func = "setup_kill_apple_media_tracking" -> setup_kill_apple_media_tracking
    [] func = "setup_download_recycler" -> setup_download_recycler

\* An operator interrupt (Ctrl-C) can strike a step at any point: after any
\* prefix of the ledger calls of any of its runs. KeyboardInterrupt is not an
\* Exception, so no except-Exception block of a step catches it.
Interrupted(outcomes) ==
  UNION { { Raises(SubSeq(o.items, 1, k), "KeyboardInterrupt") : k \in 0..Len(o.items) }
          : o \in outcomes }

\* The outcome of each step on its first run on a machine where every command
\* works and nothing is installed yet (ZSH is the login shell, as on macOS 15).
\* Only used to bound the runs explored: see MaxFaults.
FirstRunOutcome(func) ==
  CASE func = "install_homebrew" -> Returns(<<Success(<<"Homebrew installed">>)>>, TRUE)
    [] func = "install_python_via_homebrew" ->
         Returns(<<Success(<<"Python installed and alias configured">>)>>, TRUE)
    [] func = "install_zsh" -> Returns(<<Success(<<"ZSH already default shell">>)>>, TRUE)
    [] func = "install_oh_my_zsh" -> Returns(<<Success(<<"Oh My Zsh installed">>)>>, TRUE)
    [] func = "copy_zshrc" -> Returns(<<Success(<<".zshrc copied to ", "dest_zshrc">>)>>, TRUE)
    [] func = "install_nvm" ->
         Returns(<<Success(<<"NVM installed">>),
                   Success(<<"Node.js LTS installed via NVM">>)>>, TRUE)
    [] func = "install_iterm" -> Returns(<<Success(<<"iTerm2 installed">>)>>, TRUE)
    [] func = "install_claude_code" ->
         Returns(<<Success(<<"Claude Code installed via Homebrew">>)>>, TRUE)
    [] func = "install_vscode" ->
         Returns(<<Success(<<"VS Code installed">>),
                   Success(<<"'code' command set up via ", "creating symlink in /usr/local/bin">>)>>, TRUE)
    [] func = "configure_vscode_extensions" ->
         Returns(<<Success(<<"VS Code extensions: ", "Installed ", "Claude Code for VS Code",
                             "Installed ", "Python extension">>)>>, TRUE)
    [] func = "install_github_cli" -> Returns(<<Success(<<"GitHub CLI installed">>)>>, TRUE)
    [] func = "setup_github_cli" ->
         Returns(<<Success(<<"GitHub CLI authentication completed">>)>>, TRUE)
    [] func = "install_dark_mode_toggle" ->
         Returns(<<Success(<<"ThemeToggle installed successfully">>)>>, TRUE)
    [] func = "setup_kill_apple_media_tracking" ->
         Returns(<<Success(<<"Apple media tracking killer script installed and started">>)>>, TRUE)
    [] func = "setup_download_recycler" ->
         Returns(<<Success(<<"Download Recycler installed and scheduled (runs daily at 9:00 AM)">>)>>, TRUE)

\* ---------------------------------------------------------- optional values
Some(x) == [some |-> TRUE, v |-> x]
NoneValue == [some |-> FALSE, v |-> <<>>]

\* Mutant of Truthy: every given string counts as true, the empty one too.
TruthyWhenGiven(opt) == opt.some

\* Python truth of an optional string: None and "" are false.
Truthy(opt) == opt.some /\ opt.v # <<>>

\* ---------------------------------------------------------------- inputs
\* --select values and menu lines longer than MaxSelectLen that are worth a run.
SelectSamples ==
  { <<"1", ",", ",", "5">>, <<"1", "5", ",", "1">>, <<"1", ",", "1", "6">>,
    <<"1", "6", ",", "1">>, <<" ", "5", ",", " ", "1">>,
    <<"1", ",", "1", "1", ",", "5">> }

\* With --list or --all the --select value is never read (lines 1135-1150):
\* only a few values are run with them.
UnreadSelect ==
  { NoneValue, Some(<<"1", "6">>), Some(<<"1">>), Some(<<"-">>), Some(<<>>) }

ArgSpace ==
  { a \in [list : BOOLEAN, all : BOOLEAN, no_confirm : BOOLEAN,
           select : {NoneValue} \cup {Some(v) : v \in Strings(MaxSelectLen) \cup SelectSamples}]
    : (a.list \/ a.all) => a.select \in UnreadSelect }

\* platform.system() and platform.mac_ver()[0] as (major, minor).
Platforms ==
  { [system |-> "Darwin", macos_version |-> Some(<<14, 7>>)],
    [system |-> "Darwin", macos_version |-> Some(<<15, 0>>)],
    [system |-> "Linux", macos_version |-> NoneValue] }

\* Lines typed at the line-based menu, before strip() and lower().
MenuChars == {"1", "6", ",", " "}

MenuLines ==
  StringsOver(MenuChars, MaxMenuLen) \cup SelectSamples
  \cup { <<"q">>, <<" ", "Q">>, <<"a", "l", "l">>, <<"A", "l", "l", " ">>,
         <<"n", "o", "n", "e">>, <<"N", "O", "N", "E">>, <<"x">>, <<"1", ",", "x">>,
         <<"0">>, <<"-", "1">>, <<"5", ",", "0">>, <<"1", "5">>,
         <<"0", ",", "1", "6">>, <<"1", "6", ",", "5", ",", "0">>, <<"1", ",", "5">>,
         <<"1", ",", "6">>, <<"6", ",", "1">>, <<"1", "6", ",">>, <<" ", "6", " ">> }

\* Answers typed at the confirmation prompt.
ConfirmLines == { <<"y">>, <<" ", "Y", "E", "S">>, <<"n">>, <<>> }

\* What input() can do besides returning a line.
InputErrors == {"EOFError", "KeyboardInterrupt"}

\* ------------------------------------------------------- the shell profile
\* The shell profile is Some(content) or, when the file does not exist,
\* NoneValue; content is a sequence of pieces of text, NL being a newline.
NL == "\n"

\* Python's `s in content`: s occurs in content at position i.
OccursAt(content, s, i) ==
  /\ i + Len(s) - 1 <= Len(content)
  /\ SubSeq(content, i, i + Len(s) - 1) = s
Occurrences(content, s) == { i \in 1..(Len(content) + 1) : OccursAt(content, s, i) }
In(s, content) == Occurrences(content, s) # {}

\* alias_line without its newline (line 121, tested at line 129).
PythonAlias == << "alias python=\"python3\"" >>
\* The substring 'NVM_DIR' tested at line 272.
NVM_DIR == << "NVM_DIR" >>
\* nvm_lines of ensure_nvm_in_profile (lines 258-262).
nvm_lines ==
  << << "export ", "NVM_DIR", "=\"nvm_dir\"" >>,
     << "[ -s \"$", "NVM_DIR", "/nvm.sh\" ] && \\. \"$", "NVM_DIR", "/nvm.sh\"" >>,
     << "[ -s \"$", "NVM_DIR", "/bash_completion\" ] && \\. \"$", "NVM_DIR", "/bash_completion\"" >> >>
\* '# NVM Configuration' (line 277).
NvmHeader == << "# NVM Configuration" >>
\* The line setup_vscode_cli passes to add_to_shell_profile (line 408).
VscodePathLine == << "export ", "PATH=\"$PATH:", "vscode_bin_dir", "\"" >>

\* What reading or appending to the profile can do.
FileIO == {"ok", "read fails", "write fails"}

\* Mutant of add_to_shell_profile: the line is appended without looking for it.
add_to_shell_profile_unchecked(file, line, io) ==
  IF io = "ok"
    THEN [file |-> Some(file.v \o <<NL>> \o line \o <<NL>>), ret |-> TRUE]
    ELSE [file |-> file, ret |-> FALSE]

\* add_to_shell_profile(line) on the profile file: the file it leaves and the
\* value it returns. An exception of open(), read() or write() is caught and
\* the function returns False.
add_to_shell_profile(file, line, io) ==
  LET existing_content == IF file.some THEN file.v ELSE <<>>
  IN IF file.some /\ io = "read fails" THEN [file |-> file, ret |-> FALSE]
     ELSE IF ~In(line, existing_content)
       THEN IF io = "write fails"
              THEN [file |-> file, ret |-> FALSE]
              ELSE [file |-> Some(existing_content \o <<NL>> \o line \o <<NL>>),
                    ret |-> TRUE]
       ELSE [file |-> file, ret |-> FALSE]

\* Mutant of PythonAliasBlock: the profile is opened with 'w', which empties it.
PythonAliasBlockTruncating(file, io) ==
  IF io = "write fails" THEN [file |-> file, raised |-> TRUE]
  ELSE IF io = "read fails" THEN [file |-> Some(<<>>), raised |-> TRUE]
  ELSE [file |-> Some(PythonAlias \o <<NL>>), raised |-> FALSE]

\* The alias block of install_python_via_homebrew (lines 120-131): the file it
\* leaves and whether it raised. open(..., 'a') creates a missing file before
\* the content is read.
PythonAliasBlock(file, io) ==
  IF io = "write fails" THEN [file |-> file, raised |-> TRUE]
  ELSE LET opened == Some(file.v)
       IN IF io = "read fails" THEN [file |-> opened, raised |-> TRUE]
          ELSE IF ~In(PythonAlias, opened.v)
            THEN [file |-> Some(opened.v \o PythonAlias \o <<NL>>), raised |-> FALSE]
            ELSE [file |-> opened, raised |-> FALSE]

\* '\n'.join(lines)
RECURSIVE JoinLines(_)
JoinLines(lines) ==
  IF lines = <<>> THEN <<>>
  ELSE IF Len(lines) = 1 THEN lines[1]
  ELSE lines[1] \o <<NL>> \o JoinLines(Tail(lines))

\* Mutant of NvmLinesToAdd: each line is tested by itself, without the marker.
NvmLinesToAddPerLine(existing_content) ==
  LET Absent(line) == ~In(line, existing_content)
  IN SelectSeq(nvm_lines, Absent)

\* lines_to_add of ensure_nvm_in_profile (lines 270-273).
NvmLinesToAdd(existing_content) ==
  LET Absent(line) == ~In(line, existing_content) /\ ~In(NVM_DIR, existing_content)
  IN SelectSeq(nvm_lines, Absent)

\* ensure_nvm_in_profile: the file it leaves; its exceptions are caught.
ensure_nvm_in_profile(file, io) ==
  LET existing_content == IF file.some THEN file.v ELSE <<>>
      lines_to_add == NvmLinesToAdd(existing_content)
  IN IF file.some /\ io = "read fails" THEN file
     ELSE IF lines_to_add # <<>>
       THEN IF io = "write fails" THEN file
            ELSE Some(existing_content \o <<NL>> \o NvmHeader \o <<NL>>
                        \o JoinLines(lines_to_add) \o <<NL>>)
       ELSE file

\* ------------------------------------------------- steps, command by command
\* run_command's result: a truthy result ("ok"), None after CalledProcessError
\* or FileNotFoundError ("fail"), or an exception it does not catch.
ShellResults == {"ok", "fail"}
CommandResults == ShellResults \cup CommandErrors

\* One command of a step: the alternative of the step it belongs to (0 when the
\* step has no alternatives), the command and how it ended.
Attempt(alt, cmd, result) == [alt |-> alt, cmd |-> cmd, result |-> result]

\* One run of a step: the commands it ran in order, its outcome and the shell
\* profile it left.
StepRun(invoked, o, file) ==
  [invoked |-> invoked, items |-> o.items, ret |-> o.ret, exc |-> o.exc, file |-> file]

\* install_python_via_homebrew (lines 108-136) on the profile file.
install_python_via_homebrew_runs(file) ==
  { LET brew == Attempt(0, "brew install python", r)
    IN IF r \in CommandErrors THEN StepRun(<<brew>>, Raises(<<>>, r), file)
       ELSE IF r = "fail"
         THEN StepRun(<<brew>>, Returns(<<Failure(<<"Python installation failed">>)>>, FALSE), file)
       ELSE LET block == PythonAliasBlock(file, io)
            IN IF block.raised
                 THEN StepRun(<<brew>>,
                        Returns(<<Success(<<"Python installed (alias setup failed)">>)>>, TRUE),
                        block.file)
                 ELSE StepRun(<<brew>>,
                        Returns(<<Success(<<"Python installed and alias configured">>)>>, TRUE),
                        block.file)
    : r \in CommandResults, io \in FileIO }

\* A run of copy_zshrc: a step run, with the backup file it leaves.
CopyRun(o, file, backup_after) ==
  [invoked |-> <<>>, items |-> o.items, ret |-> o.ret, exc |-> o.exc, file |-> file,
   backup |-> backup_after]

\* Lines 166-170: an existing ~/.zshrc is copied over the backup file.
BackupOf(file, backup_before) == IF file.some THEN file ELSE backup_before

\* copy_zshrc (lines 155-179) on the profile file ~/.zshrc, given the file
\* zsh/.zshrc of the repository and the backup file. An exception is raised
\* by the first copy (the backup is as it was) or by the second (the backup
\* is made, ~/.zshrc is as it was).
copy_zshrc_runs(file, source, backup_before) ==
  IF ~source.some
    THEN { CopyRun(Returns(<<Failure(<<".zshrc file not found at ", "source_zshrc">>)>>, FALSE),
                   file, backup_before) }
    ELSE { CopyRun(Returns(<<Success(<<".zshrc copied to ", "dest_zshrc">>)>>, TRUE),
                   Some(source.v), BackupOf(file, backup_before)) }
         \cup
         { CopyRun(Returns(<<Failure(<<"Failed to copy .zshrc: ", e>>)>>, FALSE), file, b)
           : e \in CaughtErrors, b \in {backup_before, BackupOf(file, backup_before)} }

\* Mutant of install_claude_code_runs: the return after the first success is
\* missing, so the official installer runs as well.
install_claude_code_runs_no_return(file) ==
  { LET brew == Attempt(1, "brew install --cask claude-code", r1)
        curl == Attempt(2, "curl -fsSL https://claude.ai/install.sh | bash", r2)
    IN IF r1 \in CommandErrors THEN StepRun(<<brew>>, Raises(<<>>, r1), file)
       ELSE IF r2 = "ok"
         THEN StepRun(<<brew, curl>>,
                Returns(<<Success(<<"Claude Code installed via official installer">>)>>, TRUE), file)
       ELSE StepRun(<<brew, curl>>,
                Returns(<<Failure(<<"Claude Code installation failed">>)>>, FALSE), file)
    : r1 \in CommandResults, r2 \in ShellResults }

\* install_claude_code (lines 322-340): the Homebrew cask, then the official
\* installer.
install_claude_code_runs(file) ==
  { LET brew == Attempt(1, "brew install --cask claude-code", r1)
        curl == Attempt(2, "curl -fsSL https://claude.ai/install.sh | bash", r2)
    IN IF r1 \in CommandErrors THEN StepRun(<<brew>>, Raises(<<>>, r1), file)
       ELSE IF r1 = "ok"
         THEN StepRun(<<brew>>,
                Returns(<<Success(<<"Claude Code installed via Homebrew">>)>>, TRUE), file)
       ELSE IF r2 = "ok"
         THEN StepRun(<<brew, curl>>,
                Returns(<<Success(<<"Claude Code installed via official installer">>)>>, TRUE), file)
       ELSE StepRun(<<brew, curl>>,
                Returns(<<Failure(<<"Claude Code installation failed">>)>>, FALSE), file)
    : r1 \in CommandResults, r2 \in ShellResults }

\* An approach of setup_vscode_cli that runs a command succeeds when the
\* command does and shutil.which('code') then finds the command.
SymlinkResults == {"ok", "fail", "code not found"}
\* The third approach: os.environ['PATH'] raises KeyError when PATH is unset.
PathResults == {"ok", "KeyError"}

\* Mutant of setup_vscode_cli_runs: a failed approach ends the step.
setup_vscode_cli_runs_no_fallback(file) ==
  { LET usr == Attempt(1, "sudo ln -sf vscode_bin /usr/local/bin/code", r1)
    IN IF r1 = "ok"
         THEN StepRun(<<usr>>,
                Returns(<<Success(<<"'code' command set up via ",
                                    "creating symlink in /usr/local/bin">>)>>, TRUE), file)
         ELSE StepRun(<<usr>>,
                Returns(<<Failure(<<"Could not set up 'code' command">>)>>, FALSE), file)
    : r1 \in SymlinkResults }

\* setup_vscode_cli (lines 384-418): the early returns, then the approaches in
\* the order of the list `approaches`.
setup_vscode_cli_runs(file) ==
  { StepRun(<<>>, Returns(<<Success(<<"'code' command already available">>)>>, TRUE), file),
    StepRun(<<>>, Returns(<<Failure(<<"VS Code binary not found">>)>>, FALSE), file) }
  \cup
  { LET usr == Attempt(1, "sudo ln -sf vscode_bin /usr/local/bin/code", r1)
        brew == Attempt(2, "ln -sf vscode_bin /opt/homebrew/bin/code", r2)
        path == Attempt(3, "add_to_shell_profile", r3)
        added == add_to_shell_profile(file, VscodePathLine, io).file
    IN IF r1 = "ok"
         THEN StepRun(<<usr>>,
                Returns(<<Success(<<"'code' command set up via ",
                                    "creating symlink in /usr/local/bin">>)>>, TRUE), file)
       ELSE IF r2 = "ok"
         THEN StepRun(<<usr, brew>>,
                Returns(<<Success(<<"'code' command set up via ",
                                    "creating symlink in homebrew bin">>)>>, TRUE), file)
       ELSE IF r3 = "ok"
         THEN StepRun(<<usr, brew, path>>,
                Returns(<<Success(<<"'code' command added to PATH">>)>>, TRUE), added)
       ELSE StepRun(<<usr, brew, path>>,
                Returns(<<Failure(<<"Could not set up 'code' command">>)>>, FALSE), added)
    : r1 \in SymlinkResults, r2 \in SymlinkResults, r3 \in PathResults, io \in FileIO }

\* setup_nvm_and_node (lines 204-249): the combined command with its check of
\* node, then the fallback command. An exception inside the try block is
\* caught and recorded.
setup_nvm_and_node_runs(file) ==
  { StepRun(<<>>, Returns(<<Failure(<<"NVM script not found after installation">>)>>, FALSE), file) }
  \cup
  { LET profile_after == ensure_nvm_in_profile(file, io)
        combined == Attempt(1, "combined_cmd", r1)
        node_check == Attempt(1, "bash -c \"source ~/.nvm/nvm.sh && node --version\"", r2)
        fallback == Attempt(2, "fallback_cmd", r3)
        primary == IF r1 = "ok" THEN <<combined, node_check>> ELSE <<combined>>
    IN IF r1 \in CaughtErrors
         THEN StepRun(<<combined>>,
                Returns(<<Failure(<<"NVM setup failed: ", r1>>)>>, FALSE), profile_after)
       ELSE IF r1 = "ok" /\ r2 = "ok"
         THEN StepRun(primary,
                Returns(<<Success(<<"Node.js LTS installed via NVM">>)>>, TRUE), profile_after)
       ELSE IF r3 = "ok"
         THEN StepRun(primary \o <<fallback>>,
                Returns(<<Success(<<"Node.js LTS installed via NVM (fallback method)">>)>>, TRUE),
                profile_after)
       ELSE StepRun(primary \o <<fallback>>,
                Returns(<<Failure(<<"Node.js installation via NVM failed">>)>>, FALSE),
                profile_after)
    : r1 \in ShellResults \cup CaughtErrors, r2 \in ShellResults, r3 \in ShellResults,
      io \in FileIO }

\* --------------------------------------------------- the service supervisor
\* launchctl's answers: "ok" (status 0, nothing on stderr), 'already loaded'
\* on stderr with status 0 or with a non-zero status, "error" (non-zero status,
\* other text on stderr), "not found" (no launchctl: FileNotFoundError), or an
\* exception run_command does not catch.
AlreadyLoaded == {"already loaded", "already loaded, status 1"}
NonZero == {"already loaded, status 1", "error"}

\* The answers the supervisor gives when it works, to `launchctl load` and to
\* `launchctl unload` of a label, L being the labels it has loaded.
Honest(L, cmd, label) ==
  IF cmd = "load"
    THEN IF label \in L THEN AlreadyLoaded \cup {"error"} ELSE {"ok"}
    ELSE IF label \in L THEN {"ok"} ELSE {"error"}
\* All the answers a command can get.
Answers(L, cmd, label) == Honest(L, cmd, label) \cup {"error", "not found"} \cup CommandErrors

\* The labels loaded after a command was answered: only a command that is
\* answered "ok" changes them.
Supervisor(L, cmd, label, answer) ==
  IF answer # "ok" THEN L
  ELSE IF cmd = "load" THEN L \cup {label} ELSE L \ {label}

\* run_command(command, check=check): the result, or None.
RunCommand(answer, check) ==
  IF answer = "not found" \/ (check /\ answer \in NonZero) THEN NoneValue ELSE Some(answer)

\* Mutant of RetryCommands: the retry loads first and unloads afterwards.
RetryCommandsReversed == << "load", "unload" >>

\* The two launchctl commands of the retry, in the order they are run (lines
\* 498-499 and 623-624).
RetryCommands == << "unload", "load" >>

\* Loading the LaunchAgent (lines 493-501 and 618-626): the commands run and
\* their answers, the labels loaded afterwards, whether load_result is truthy
\* at the end, and the exception raised, if any.
LoadLaunchAgent(L, label) ==
  UNION { LET first == Attempt(0, "load", a1)
              load_result == RunCommand(a1, FALSE)
              L1 == Supervisor(L, "load", label, a1)
          IN IF a1 \in CommandErrors
               THEN { [invoked |-> <<first>>, loaded |-> L, started |-> FALSE, exc |-> a1] }
             ELSE IF ~load_result.some \/ load_result.v \in AlreadyLoaded
               THEN UNION {
                 LET unload == Attempt(0, RetryCommands[1], a2)
                     L2 == Supervisor(L1, RetryCommands[1], label, a2)
                 IN IF a2 \in CommandErrors
                      THEN { [invoked |-> <<first, unload>>, loaded |-> L1,
                              started |-> FALSE, exc |-> a2] }
                      ELSE { LET again == Attempt(0, RetryCommands[2], a3)
                             IN IF a3 \in CommandErrors
                                  THEN [invoked |-> <<first, unload, again>>, loaded |-> L2,
                                        started |-> FALSE, exc |-> a3]
                                  ELSE [invoked |-> <<first, unload, again>>,
                                        loaded |-> Supervisor(L2, RetryCommands[2], label, a3),
                                        started |-> RunCommand(a3, TRUE).some, exc |-> ""]
                             : a3 \in Answers(L2, RetryCommands[2], label) }
                 : a2 \in Answers(L1, RetryCommands[1], label) }
             ELSE { [invoked |-> <<first>>, loaded |-> L1, started |-> TRUE, exc |-> ""] }
          : a1 \in Answers(L, "load", label) }

\* One run of a background-job installer: as a step run, with whether the
\* service descriptor was written and the labels loaded afterwards.
JobRun(written, invoked, loaded, o) ==
  [written |-> written, invoked |-> invoked, loaded |-> loaded,
   items |-> o.items, ret |-> o.ret, exc |-> o.exc]

\* Mutant of NotStarted: an agent that could not be loaded is a failed step.
NotStartedIsFailure(texts) == Returns(<<Failure(<<texts.later>>)>>, FALSE)

\* The else branch of `if load_result` (lines 506-509 and 631-636).
NotStarted(texts) == Returns(<<Success(<<texts.later>>)>>, TRUE)

\* Mutant of MissingScript: the agent is loaded although nothing was written.
MissingScriptStillLoads(L, label, texts) ==
  { JobRun(FALSE, r.invoked, r.loaded, Returns(<<Failure(<<texts.missing>>)>>, FALSE))
    : r \in LoadLaunchAgent(L, label) }

\* `if not source_script.exists()` (lines 449-451 and 529-531): a failure is
\* recorded and the installer returns before it writes or loads anything.
MissingScript(L, label, texts) ==
  { JobRun(FALSE, <<>>, L, Returns(<<Failure(<<texts.missing>>)>>, FALSE)) }

\* The body shared by the two installers: the missing source script, a file
\* operation (or, for the recycler, the prompt for the number of days) that
\* raises before the descriptor is written, or the descriptor written and
\* loaded.
BackgroundJobRuns(L, label, texts, errors) ==
  MissingScript(L, label, texts)
  \cup
  { JobRun(FALSE, <<>>, L, Returns(<<Failure(<<texts.failed, e>>)>>, FALSE)) : e \in errors }
  \cup
  { IF r.exc # ""
      THEN JobRun(TRUE, r.invoked, r.loaded, Returns(<<Failure(<<texts.failed, r.exc>>)>>, FALSE))
      ELSE IF r.started
        THEN JobRun(TRUE, r.invoked, r.loaded, Returns(<<Success(<<texts.started>>)>>, TRUE))
        ELSE JobRun(TRUE, r.invoked, r.loaded, NotStarted(texts))
    : r \in LoadLaunchAgent(L, label) }

KillAppleMediaTrackingLabel == "com.user.killapplemediatracking"
DownloadRecyclerLabel == "com.user.downloadrecycler"

\* setup_kill_apple_media_tracking (lines 436-513).
setup_kill_apple_media_tracking_runs(L) ==
  BackgroundJobRuns(L, KillAppleMediaTrackingLabel,
    [missing |-> "killapplemediatracking.sh not found in background_scripts directory",
     started |-> "Apple media tracking killer script installed and started",
     later |-> "Apple media tracking killer script installed (will start on next login)",
     failed |-> "Failed to setup Apple media tracking killer: "],
    CaughtErrors)

\* setup_download_recycler (lines 515-641).
setup_download_recycler_runs(L) ==
  BackgroundJobRuns(L, DownloadRecyclerLabel,
    [missing |-> "download_recycler.sh not found in background_scripts directory",
     started |-> "Download Recycler installed and scheduled (runs daily at 9:00 AM)",
     later |-> "Download Recycler installed (will start on next login)",
     failed |-> "Failed to setup Download Recycler: "],
    CaughtErrors \cup {"EOFError"})

\* ------------------------------------------------------------------- state
VARIABLES
  args,            \* argparse result: list, all, select, no_confirm
  system,          \* MacOSDevSetup.system
  macos_version,   \* MacOSDevSetup.macos_version
  success_items,   \* MacOSDevSetup.success_items
  failed_items,    \* MacOSDevSetup.failed_items
  pc,              \* where main() is
  selected_steps,  \* main's selected_steps: catalog positions (1-based), or None
  step_no,         \* position of the executor loop in selected_steps
  exit_code,       \* the process's exit status, -1 while it runs
  stdout,          \* the lines printed since the program last read input
  current,         \* curses_menu's cursor (0-based), -1 outside the menu
  selected,        \* display_checkbox_menu's flags, <<>> outside the menu
  keys,            \* keys read by curses_menu so far
  prompts,         \* lines read by display_simple_menu so far
  faults,          \* steps of this run that did not end by their first-run outcome
  log,             \* history: what main has done so far, in order
  typed,           \* the line display_simple_menu has just read, until main goes on
  profile,         \* the file at MacOSDevSetup.shell_profile: content, or None
  profile0,        \* the shell profile before the tool's first run
  source_zshrc,    \* the file zsh/.zshrc next to the script: content, or None
  backup,          \* the file at copy_zshrc's backup_path: content, or None
  launchd,         \* the labels the service supervisor has loaded
  last,            \* the latest run of a step or helper, command by command
  prev,            \* the run before it, when it was a call of add_to_shell_profile
  nruns            \* how many such runs there have been

vars ==
  << args, system, macos_version, success_items, failed_items, pc, selected_steps,
     step_no, exit_code, stdout, current, selected, keys, prompts, faults, log,
     typed, profile, profile0, source_zshrc, backup, launchd, last, prev, nruns >>

\* main() as a whole: what it does inside the steps is in the outcome sets.
machine == << profile, profile0, source_zshrc, backup, launchd, last, prev, nruns >>

steps == get_installation_steps

Line(text, nums) == [text |-> text, nums |-> nums]
\* A history entry: what happened, and the sizes of the two ledger lists just
\* after it. A call of a step action also has the catalog position of the step,
\* the loop position, the ledger calls the action made and what it raised.
Event(ev, step, items, exc) ==
  [ev |-> ev, step |-> step, pos |-> 0, items |-> items, exc |-> exc,
   successes |-> Len(success_items), failures |-> Len(failed_items)]
CallEvent(step, pos, o, successes, failures) ==
  [ev |-> "call", step |-> step, pos |-> pos, items |-> o.items, exc |-> o.exc,
   successes |-> successes, failures |-> failures]

\* No run yet.
NoRun ==
  [func |-> "", line |-> <<>>, before |-> NoneValue, loaded |-> {}, written |-> FALSE,
   invoked |-> <<>>, items |-> <<>>, ret |-> "", exc |-> "", after |-> NoneValue]

Init ==
  /\ args \in ArgSpace
  /\ \E p \in Platforms : system = p.system /\ macos_version = p.macos_version
  /\ success_items = <<>>
  /\ failed_items = <<>>
  /\ pc = "main"
  /\ selected_steps = NoneValue
  /\ step_no = 0
  /\ exit_code = -1
  /\ stdout = <<>>
  /\ current = -1
  /\ selected = <<>>
  /\ keys = 0
  /\ prompts = 0
  /\ faults = 0
  /\ log = <<>>
  /\ typed = NoneValue
  /\ profile = NoneValue
  /\ profile0 = NoneValue
  /\ source_zshrc = NoneValue
  /\ backup = NoneValue
  /\ launchd = {}
  /\ last = NoRun
  /\ prev = NoRun
  /\ nruns = 0

\* sys.exit(code), or main returning (code 0), or an uncaught exception.
Exit(code) ==
  /\ pc' = "exited"
  /\ exit_code' = code

\* The exit status of a process ended by an uncaught exception.
UncaughtStatus(e) == IF e = "KeyboardInterrupt" THEN 130 ELSE 1

LedgerUnchanged == UNCHANGED << success_items, failed_items >>
MenuUnchanged == UNCHANGED << current, selected, keys, prompts >>
MenuClosed == current' = -1 /\ selected' = <<>> /\ keys' = 0 /\ prompts' = 0
EnvUnchanged == UNCHANGED << args, system, macos_version >>

\* Mutant of Listing: enumerate(steps) without its start of 1.
ListingFromZero ==
  [k \in 1..(2 * Len(steps)) |->
     IF k % 2 = 1
       THEN Line(<<steps[(k + 1) \div 2].name>>, <<(k + 1) \div 2 - 1>>)
       ELSE Line(<<"    -> ", steps[k \div 2].description>>, <<>>)]

\* The catalog as --list and the line-based menu print it.
Listing ==
  [k \in 1..(2 * Len(steps)) |->
     IF k % 2 = 1
       THEN Line(<<steps[(k + 1) \div 2].name>>, <<(k + 1) \div 2>>)
       ELSE Line(<<"    -> ", steps[k \div 2].description>>, <<>>)]

\* ------------------------------------------------------- main: the flags
\* --list: print the catalog and return.
MainList ==
  /\ pc = "main"
  /\ args.list
  /\ stdout' = stdout \o Listing
  /\ log' = Append(log, Event("list", 0, <<>>, ""))
  /\ Exit(0)
  /\ EnvUnchanged /\ LedgerUnchanged /\ MenuUnchanged /\ UNCHANGED typed
  /\ UNCHANGED << selected_steps, step_no, faults >>

\* --all: every step of the catalog, in catalog order.
MainAll ==
  /\ pc = "main"
  /\ ~args.list
  /\ args.all
  /\ selected_steps' = Some([k \in 1..Len(steps) |-> k])
  /\ pc' = "selected"
  /\ log' = Append(log, Event("selected", 0, <<>>, ""))
  /\ EnvUnchanged /\ LedgerUnchanged /\ MenuUnchanged /\ UNCHANGED typed
  /\ UNCHANGED << step_no, exit_code, stdout, faults >>

\* Mutant of ParseIndices: blank tokens are skipped and not handed to int().
ParseIndicesSkippingBlanks(tokens) ==
  LET kept == SelectSeq(tokens, LAMBDA t : Strip(t) # <<>>)
  IN IF \E k \in 1..Len(kept) : ~ParseInt(Strip(kept[k])).ok
       THEN [ok |-> FALSE, indices |-> <<>>]
       ELSE [ok |-> TRUE,
             indices |-> [k \in 1..Len(kept) |-> ParseInt(Strip(kept[k])).val - 1]]

\* [int(x.strip()) - 1 for x in tokens]: the 0-based indices, or ValueError.
ParseIndices(tokens) ==
  IF \E k \in 1..Len(tokens) : ~ParseInt(Strip(tokens[k])).ok
    THEN [ok |-> FALSE, indices |-> <<>>]
    ELSE [ok |-> TRUE,
          indices |-> [k \in 1..Len(tokens) |-> ParseInt(Strip(tokens[k])).val - 1]]

\* Mutant of InRange: the lower bound is not checked.
InRangeNoLowerBound(idx) == idx < Len(steps)

InRange(idx) == 0 <= idx /\ idx < Len(steps)

\* The loop of lines 1155-1161: the steps of the indices in the order given
\* (as 1-based catalog positions), or the first out-of-range index.
ResolveSelect(indices) ==
  IF \E k \in 1..Len(indices) : ~InRange(indices[k])
    THEN [ok |-> FALSE,
          bad |-> indices[CHOOSE k \in 1..Len(indices) :
                            /\ ~InRange(indices[k])
                            /\ \A j \in 1..(k - 1) : InRange(indices[j])] + 1,
          chosen |-> <<>>]
    ELSE [ok |-> TRUE, bad |-> 0,
          chosen |-> [k \in 1..Len(indices) |-> indices[k] + 1]]

\* --select: lines 1150-1164.
MainSelect ==
  /\ pc = "main"
  /\ ~args.list
  /\ ~args.all
  /\ Truthy(args.select)
  /\ LET parsed == ParseIndices(Split(args.select.v))
         resolved == ResolveSelect(parsed.indices)
     IN IF ~parsed.ok
          THEN /\ stdout' = Append(stdout, Line(<<"Invalid selection format">>, <<>>))
               /\ log' = Append(log, Event("bad_select", 0, <<>>, "ValueError"))
               /\ Exit(1)
               /\ UNCHANGED selected_steps
        ELSE IF ~resolved.ok
          THEN /\ stdout' = Append(stdout, Line(<<"Invalid component number: ">>, <<resolved.bad>>))
               /\ log' = Append(log, Event("bad_select", 0, <<>>, "SystemExit"))
               /\ Exit(1)
               /\ UNCHANGED selected_steps
        ELSE /\ selected_steps' = Some(resolved.chosen)
             /\ pc' = "selected"
             /\ log' = Append(log, Event("selected", 0, <<>>, ""))
             /\ UNCHANGED << exit_code, stdout >>
  /\ EnvUnchanged /\ LedgerUnchanged /\ MenuUnchanged /\ UNCHANGED typed
  /\ UNCHANGED << step_no, faults >>

\* --------------------------------------------------- the checkbox menu
\* main at line 1167 with neither --list, --all nor a non-empty --select:
\* display_checkbox_menu up to its first read. Without a terminal on stdin and
\* stdout it hands over to display_simple_menu, which prints the catalog.
MainInteractive ==
  /\ pc = "main"
  /\ ~args.list
  /\ ~args.all
  /\ ~Truthy(args.select)
  /\ \E isatty \in BOOLEAN :
       IF ~isatty
         THEN /\ pc' = "simple"
              /\ stdout' = stdout \o Listing
              /\ UNCHANGED << current, selected >>
         ELSE /\ pc' = "checkbox"
              /\ selected' = [k \in 1..Len(steps) |-> TRUE]
              /\ current' = 0
              /\ UNCHANGED stdout
  /\ log' = Append(log, Event("menu", 0, <<>>, ""))
  /\ EnvUnchanged /\ LedgerUnchanged
  /\ UNCHANGED << selected_steps, step_no, exit_code, keys, prompts, faults, typed >>

\* A key that neither commits nor quits leaves main where it is.
KeyFrame ==
  /\ pc = "checkbox"
  /\ keys < MaxKeys
  /\ keys' = keys + 1
  /\ EnvUnchanged /\ LedgerUnchanged
  /\ stdout' = <<>>
  /\ UNCHANGED << pc, selected_steps, step_no, exit_code, prompts, faults, log, typed >>

\* Mutant of KeyUp: Up at the first entry wraps around to the last.
KeyUpWraps ==
  /\ KeyFrame
  /\ current' = IF current > 0 THEN current - 1 ELSE Len(steps) - 1
  /\ UNCHANGED selected

KeyUp ==
  /\ KeyFrame
  /\ current' = IF current > 0 THEN current - 1 ELSE current
  /\ UNCHANGED selected

KeyDown ==
  /\ KeyFrame
  /\ current' = IF current < Len(steps) - 1 THEN current + 1 ELSE current
  /\ UNCHANGED selected

\* Mutant of KeySpace: the entry is toggled and the cursor moves on.
KeySpaceMovesOn ==
  /\ KeyFrame
  /\ selected' = [selected EXCEPT ![current + 1] = ~selected[current + 1]]
  /\ current' = IF current < Len(steps) - 1 THEN current + 1 ELSE current

KeySpace ==
  /\ KeyFrame
  /\ selected' = [selected EXCEPT ![current + 1] = ~selected[current + 1]]
  /\ UNCHANGED current

KeySelectAll ==
  /\ KeyFrame
  /\ selected' = [k \in 1..Len(steps) |-> TRUE]
  /\ UNCHANGED current

KeySelectNone ==
  /\ KeyFrame
  /\ selected' = [k \in 1..Len(steps) |-> FALSE]
  /\ UNCHANGED current

\* Any key the loop has no branch for.
KeyOther ==
  /\ KeyFrame
  /\ UNCHANGED << current, selected >>

\* Mutant of SelectedPositions: every step is returned, checked or not.
RECURSIVE SelectedPositionsAll(_, _)
SelectedPositionsAll(flags, k) ==
  IF k > Len(flags) THEN <<>>
  ELSE <<k>> \o SelectedPositionsAll(flags, k + 1)

\* [x for x, is_selected in zip(steps, selected) if is_selected], as positions.
RECURSIVE SelectedPositions(_, _)
SelectedPositions(flags, k) ==
  IF k > Len(flags) THEN <<>>
  ELSE (IF flags[k] THEN <<k>> ELSE <<>>) \o SelectedPositions(flags, k + 1)

\* Mutant of MenuReturns: a cancelled selection ends the process with status 1.
MenuReturnsCancelFails(value) ==
  /\ selected_steps' = value
  /\ MenuClosed
  /\ IF value.some
       THEN /\ pc' = "selected"
            /\ log' = Append(log, Event("selected", 0, <<>>, ""))
            /\ UNCHANGED exit_code
       ELSE /\ log' = Append(log, Event("cancelled", 0, <<>>, ""))
            /\ Exit(1)

\* The menu has returned value to main (line 1167).
MenuReturns(value) ==
  /\ selected_steps' = value
  /\ MenuClosed
  /\ IF value.some
       THEN /\ pc' = "selected"
            /\ log' = Append(log, Event("selected", 0, <<>>, ""))
            /\ UNCHANGED exit_code
       ELSE /\ log' = Append(log, Event("cancelled", 0, <<>>, ""))
            /\ Exit(0)

\* Enter: curses_menu returns True, the menu returns the checked steps.
KeyEnter ==
  /\ pc = "checkbox"
  /\ MenuReturns(Some(SelectedPositions(selected, 1)))
  /\ stdout' = <<>>
  /\ EnvUnchanged /\ LedgerUnchanged
  /\ UNCHANGED << step_no, faults, typed >>

\* Q: curses_menu returns False, the menu returns None and main returns.
KeyQuit ==
  /\ pc = "checkbox"
  /\ MenuReturns(NoneValue)
  /\ stdout' = <<Line(<<"Setup cancelled.">>, <<>>)>>
  /\ EnvUnchanged /\ LedgerUnchanged
  /\ UNCHANGED << step_no, faults, typed >>

\* curses.wrapper raised: fall back to display_simple_menu.
CursesFails ==
  /\ pc = "checkbox"
  /\ pc' = "simple"
  /\ stdout' = Listing
  /\ MenuClosed
  /\ EnvUnchanged /\ LedgerUnchanged
  /\ UNCHANGED << selected_steps, step_no, exit_code, faults, log, typed >>

\* ------------------------------------------------- the line-based menu
\* [int(x.strip()) - 1 for x in selection.split(',') if x.strip()]
RECURSIVE NonBlank(_)
NonBlank(tokens) ==
  IF tokens = <<>> THEN <<>>
  ELSE (IF Strip(Head(tokens)) # <<>> THEN <<Head(tokens)>> ELSE <<>>)
         \o NonBlank(Tail(tokens))

\* Mutant of ValidSteps: the steps come out in the reverse of the order typed.
RECURSIVE ValidStepsReversed(_)
ValidStepsReversed(indices) ==
  IF indices = <<>> THEN <<>>
  ELSE ValidStepsReversed(Tail(indices))
         \o (IF InRange(Head(indices)) THEN <<Head(indices) + 1>> ELSE <<>>)

\* The in-range indices of the list, as catalog positions, in the order typed.
RECURSIVE ValidSteps(_)
ValidSteps(indices) ==
  IF indices = <<>> THEN <<>>
  ELSE (IF InRange(Head(indices)) THEN <<Head(indices) + 1>> ELSE <<>>)
         \o ValidSteps(Tail(indices))

\* Mutant of InvalidIndices: only the first out-of-range entry is kept.
RECURSIVE InvalidIndicesFirstOnly(_)
InvalidIndicesFirstOnly(indices) ==
  IF indices = <<>> THEN <<>>
  ELSE IF InRange(Head(indices)) THEN InvalidIndicesFirstOnly(Tail(indices))
  ELSE <<Head(indices) + 1>>

\* The out-of-range entries, as typed (idx + 1), in the order typed.
RECURSIVE InvalidIndices(_)
InvalidIndices(indices) ==
  IF indices = <<>> THEN <<>>
  ELSE (IF InRange(Head(indices)) THEN <<>> ELSE <<Head(indices) + 1>>)
         \o InvalidIndices(Tail(indices))

\* Mutant of SimpleMenuLine: a list without any index is returned as the
\* empty selection.
SimpleMenuLineReturnsEmpty(line) ==
  LET selection == Lower(Strip(line))
      parsed == ParseIndices(NonBlank(Split(selection)))
      chosen == ValidSteps(parsed.indices)
      invalid_indices == InvalidIndices(parsed.indices)
  IN IF selection = <<"q">>
       THEN [returns |-> TRUE, ret |-> NoneValue, out |-> <<>>]
     ELSE IF selection = <<"a", "l", "l">> \/ selection = <<>>
       THEN [returns |-> TRUE, ret |-> Some([k \in 1..Len(steps) |-> k]), out |-> <<>>]
     ELSE IF selection = <<"n", "o", "n", "e">>
       THEN [returns |-> TRUE, ret |-> Some(<<>>), out |-> <<>>]
     ELSE IF ~parsed.ok
       THEN [returns |-> FALSE, ret |-> NoneValue,
             out |-> <<Line(<<"Invalid input.">>, <<>>)>>]
     ELSE IF invalid_indices # <<>>
       THEN [returns |-> FALSE, ret |-> NoneValue,
             out |-> <<Line(<<"Invalid selection(s): ">>, invalid_indices)>>]
     ELSE [returns |-> TRUE, ret |-> Some(chosen), out |-> <<>>]

\* What one line typed at the prompt makes display_simple_menu do: return a
\* value (ret) or print a message and prompt again.
SimpleMenuLine(line) ==
  LET selection == Lower(Strip(line))
      parsed == ParseIndices(NonBlank(Split(selection)))
      chosen == ValidSteps(parsed.indices)
      invalid_indices == InvalidIndices(parsed.indices)
  IN IF selection = <<"q">>
       THEN [returns |-> TRUE, ret |-> NoneValue, out |-> <<>>]
     ELSE IF selection = <<"a", "l", "l">> \/ selection = <<>>
       THEN [returns |-> TRUE, ret |-> Some([k \in 1..Len(steps) |-> k]), out |-> <<>>]
     ELSE IF selection = <<"n", "o", "n", "e">>
       THEN [returns |-> TRUE, ret |-> Some(<<>>), out |-> <<>>]
     ELSE IF ~parsed.ok
       THEN [returns |-> FALSE, ret |-> NoneValue,
             out |-> <<Line(<<"Invalid input.">>, <<>>)>>]
     ELSE IF invalid_indices # <<>>
       THEN [returns |-> FALSE, ret |-> NoneValue,
             out |-> <<Line(<<"Invalid selection(s): ">>, invalid_indices)>>]
     ELSE IF chosen # <<>>
       THEN [returns |-> TRUE, ret |-> Some(chosen), out |-> <<>>]
     ELSE [returns |-> FALSE, ret |-> NoneValue,
           out |-> <<Line(<<"No valid selections made.">>, <<>>)>>]

\* One line read at "Your selection: ".
SimpleMenuInput ==
  /\ pc = "simple"
  /\ prompts < MaxPrompts
  /\ \E line \in MenuLines :
       LET r == SimpleMenuLine(line)
       IN /\ typed' = Some(line)
          /\ IF r.returns
               THEN /\ MenuReturns(r.ret)
                    /\ stdout' = IF r.ret.some THEN <<>>
                                 ELSE <<Line(<<"Setup cancelled.">>, <<>>)>>
               ELSE /\ prompts' = prompts + 1
                    /\ stdout' = r.out
                    /\ UNCHANGED << pc, selected_steps, exit_code, current, selected, keys, log >>
  /\ EnvUnchanged /\ LedgerUnchanged
  /\ UNCHANGED << step_no, faults >>

\* Mutant of InputErrorValue: the end of input cancels like Ctrl-C.
InputErrorValueCancels(e) == NoneValue

\* What display_simple_menu returns when input() raises e (lines 1056-1061):
\* the whole catalog at the end of input, None at Ctrl-C.
InputErrorValue(e) ==
  IF e = "EOFError" THEN Some([k \in 1..Len(steps) |-> k]) ELSE NoneValue

\* input() raised: the except clause prints its message and the menu returns;
\* main prints "Setup cancelled." once more for None (line 1169). The count
\* of lines read before is kept until main goes on.
SimpleMenuInputError ==
  /\ pc = "simple"
  /\ \E e \in InputErrors :
       LET value == InputErrorValue(e)
       IN /\ selected_steps' = value
          /\ IF value.some
               THEN /\ pc' = "selected"
                    /\ log' = Append(log, Event("selected", 0, <<>>, ""))
                    /\ UNCHANGED exit_code
               ELSE /\ log' = Append(log, Event("cancelled", 0, <<>>, ""))
                    /\ Exit(0)
          /\ stdout' =
               (IF e = "EOFError"
                  THEN <<Line(<<"No input received. Using default (all components).">>, <<>>)>>
                  ELSE <<Line(<<"Setup cancelled.">>, <<>>)>>)
               \o (IF value.some THEN <<>> ELSE <<Line(<<"Setup cancelled.">>, <<>>)>>)
  /\ current' = -1 /\ selected' = <<>> /\ keys' = 0
  /\ UNCHANGED prompts
  /\ typed' = NoneValue
  /\ EnvUnchanged /\ LedgerUnchanged
  /\ UNCHANGED << step_no, faults >>

\* ------------------------------------- main after the selection is made
\* Lines 1172-1188 up to the confirmation prompt.
Proceed ==
  /\ pc = "selected"
  /\ IF selected_steps.v = <<>>
       THEN /\ stdout' = Append(stdout, Line(<<"No components selected for installation.">>, <<>>))
            /\ Exit(0)
       ELSE /\ stdout' = Append(stdout, Line(<<"The following components will be installed:">>,
                                              selected_steps.v))
            /\ pc' = IF args.no_confirm THEN "compat" ELSE "confirm"
            /\ UNCHANGED exit_code
  /\ typed' = NoneValue
  /\ prompts' = 0
  /\ EnvUnchanged /\ LedgerUnchanged
  /\ UNCHANGED << current, selected, keys, selected_steps, step_no, faults, log >>

\* The answer to "Proceed with installation? (y/n): ".
Confirm ==
  /\ pc = "confirm"
  /\ \E line \in ConfirmLines :
       LET confirm == Strip(Lower(line))
       IN IF confirm \notin { <<"y">>, <<"y", "e", "s">> }
            THEN /\ stdout' = <<Line(<<"Setup cancelled.">>, <<>>)>>
                 /\ log' = Append(log, Event("declined", 0, <<>>, ""))
                 /\ Exit(0)
            ELSE /\ pc' = "compat"
                 /\ log' = Append(log, Event("confirmed", 0, <<>>, ""))
                 /\ stdout' = <<>>
                 /\ UNCHANGED exit_code
  /\ EnvUnchanged /\ LedgerUnchanged /\ MenuUnchanged /\ UNCHANGED typed
  /\ UNCHANGED << selected_steps, step_no, faults >>

\* input() raised at the confirmation prompt: nothing in main catches it.
ConfirmError ==
  /\ pc = "confirm"
  /\ \E e \in InputErrors :
       /\ log' = Append(log, Event("uncaught", 0, <<>>, e))
       /\ Exit(UncaughtStatus(e))
  /\ stdout' = <<>>
  /\ EnvUnchanged /\ LedgerUnchanged /\ MenuUnchanged /\ UNCHANGED typed
  /\ UNCHANGED << selected_steps, step_no, faults >>

\* int(self.macos_version.split('.')[0])
Major(version) == version[1]

MinMacOSMajor == 15

\* Mutant of check_macos_compatibility: the version is not checked.
check_macos_system_only == IF system # "Darwin" THEN FALSE ELSE TRUE

check_macos_compatibility ==
  IF system # "Darwin" THEN FALSE
  ELSE IF Major(macos_version.v) < MinMacOSMajor THEN FALSE
  ELSE TRUE

\* Lines 1190-1194.
CheckCompatibility ==
  /\ pc = "compat"
  /\ log' = Append(log, Event("compat", 0, <<>>, ""))
  /\ IF ~check_macos_compatibility
       THEN /\ Exit(1)
            /\ UNCHANGED step_no
       ELSE /\ pc' = "run"
            /\ step_no' = 1
            /\ UNCHANGED exit_code
  /\ EnvUnchanged /\ LedgerUnchanged /\ MenuUnchanged /\ UNCHANGED typed
  /\ UNCHANGED << selected_steps, stdout, faults >>

\* ---------------------------------------------------------- the executor
\* The texts a step's calls append to success_items / failed_items, in order.
RECURSIVE TextsOf(_, _)
TextsOf(items, kind) ==
  IF items = <<>> THEN <<>>
  ELSE (IF Head(items).kind = kind THEN <<Head(items).text>> ELSE <<>>)
         \o TextsOf(Tail(items), kind)

\* Mutant of ExecutorFailure: the entry does not name the step.
ExecutorFailureUnnamed(step_name, e) == << "error: ", e >>

\* except Exception as e: setup.add_failure(f"{step_name} (error: {e})")
ExecutorFailure(step_name, e) == << step_name, " (error: ", e, ")" >>

\* Mutant of CaughtByExecutor: a bare except, which catches everything.
CaughtByExecutorBare(o) == o.ret = "raise"

\* Whether the try block of the loop catches what the action raised.
CaughtByExecutor(o) == o.ret = "raise" /\ o.exc # "KeyboardInterrupt"

\* Mutant of NextStepNo: a break in the except block, so that a step that
\* raises ends the walk.
NextStepNoBreakOnError(o) ==
  IF o.ret = "raise" THEN Len(selected_steps.v) + 1 ELSE step_no + 1

\* for step_name, step_func in selected_steps: whatever the call did and
\* whatever the except block caught, the loop moves on to the next entry.
NextStepNo(o) == step_no + 1

\* One iteration of the loop of lines 1197-1203: the action is called; what it
\* appended stays; an Exception it raised becomes one failure entry and the
\* loop goes on; a KeyboardInterrupt ends the process.
RunStep ==
  /\ pc = "run"
  /\ step_no <= Len(selected_steps.v)
  /\ LET idx == selected_steps.v[step_no]
         step_name == steps[idx].name
         step_func == steps[idx].func
     IN \E o \in Call(step_func) \cup Interrupted(Call(step_func)) :
          /\ o = FirstRunOutcome(step_func) \/ faults < MaxFaults
          /\ faults' = IF o = FirstRunOutcome(step_func) THEN faults ELSE faults + 1
          /\ success_items' = success_items \o TextsOf(o.items, "success")
          /\ failed_items' =
               failed_items \o TextsOf(o.items, "failure")
                 \o (IF CaughtByExecutor(o) THEN <<ExecutorFailure(step_name, o.exc)>> ELSE <<>>)
          /\ log' = Append(log, CallEvent(idx, step_no, o, Len(success_items'), Len(failed_items')))
          /\ IF o.ret = "raise" /\ ~CaughtByExecutor(o)
               THEN /\ Exit(UncaughtStatus(o.exc))
                    /\ UNCHANGED step_no
               ELSE /\ step_no' = NextStepNo(o)
                    /\ UNCHANGED << pc, exit_code >>
  /\ EnvUnchanged /\ MenuUnchanged /\ UNCHANGED typed
  /\ UNCHANGED << selected_steps, stdout >>

\* Mutant of SetupExitStatus: the wrong list decides the status.
SetupExitStatusFromSuccesses == IF Len(success_items) = 0 THEN 1 ELSE 0

\* success = len(setup.failed_items) == 0; sys.exit(1) if not success.
SetupExitStatus == IF Len(failed_items) = 0 THEN 0 ELSE 1

\* Lines 1205-1214: the summary, then the exit status.
Finish ==
  /\ pc = "run"
  /\ step_no > Len(selected_steps.v)
  /\ stdout' = Append(stdout, Line(<<"SETUP COMPLETE!">>, <<>>))
  /\ log' = Append(log, Event("summary", 0, <<>>, ""))
  /\ Exit(SetupExitStatus)
  /\ EnvUnchanged /\ LedgerUnchanged /\ MenuUnchanged /\ UNCHANGED typed
  /\ UNCHANGED << selected_steps, step_no, faults >>

Next ==
 /\ UNCHANGED machine
 /\
  \/ MainList
  \/ MainAll
  \/ MainSelect
  \/ MainInteractive
  \/ KeyUp
  \/ KeyDown
  \/ KeySpace
  \/ KeySelectAll
  \/ KeySelectNone
  \/ KeyOther
  \/ KeyEnter
  \/ KeyQuit
  \/ CursesFails
  \/ SimpleMenuInput
  \/ SimpleMenuInputError
  \/ Proceed
  \/ Confirm
  \/ ConfirmError
  \/ CheckCompatibility
  \/ RunStep
  \/ Finish

Spec == Init /\ [][Next]_vars

\* ================================================= steps on the shell profile
\* Shell profiles the tool can find: a missing file, every short text over a
\* few pieces, and files that already hold the tool's lines, whole, as part of
\* a longer line, twice, or without a final newline.
ProfilePieces == {"a", "b", NL}
InitialProfiles ==
  {NoneValue}
  \cup { Some(c) : c \in StringsOver(ProfilePieces, MaxProfileLen) }
  \cup { Some(PythonAlias \o <<NL>>),
         Some(<<"# ">> \o PythonAlias \o <<NL>>),
         Some(PythonAlias \o <<NL>> \o PythonAlias \o <<NL>>),
         Some(<<"PS1=x">>),
         Some(<<"export ", "NVM_DIR", "=\"elsewhere\"", NL>>),
         Some(nvm_lines[1] \o <<NL>>),
         Some(<<NL>> \o VscodePathLine \o <<NL>>),
         Some(<<"# ">> \o VscodePathLine \o <<NL>>) }

\* The .zshrc the repository ships (a data file): missing, one without any of
\* the lines the steps write, one that sets up the alias and NVM once, or one
\* that holds the alias twice.
SourceZshrcs ==
  { NoneValue,
    Some(<<"ZSH_THEME=x", NL>>),
    Some(PythonAlias \o <<NL>> \o nvm_lines[1] \o <<NL>>),
    Some(PythonAlias \o <<NL, "# again", NL>> \o PythonAlias \o <<NL>>) }

\* Lines passed to add_to_shell_profile.
ProfileLines == { <<"a">>, <<"a", "b">>, VscodePathLine }

\* The MacOSDevSetup object as constructed, outside main().
Constructed ==
  /\ args = [list |-> FALSE, all |-> FALSE, no_confirm |-> FALSE, select |-> NoneValue]
  /\ system = "Darwin"
  /\ macos_version = Some(<<15, 0>>)
  /\ success_items = <<>>
  /\ failed_items = <<>>
  /\ pc = "main"
  /\ selected_steps = NoneValue
  /\ step_no = 0
  /\ exit_code = -1
  /\ stdout = <<>>
  /\ current = -1
  /\ selected = <<>>
  /\ keys = 0
  /\ prompts = 0
  /\ faults = 0
  /\ log = <<>>
  /\ typed = NoneValue

ProfileInit ==
  /\ Constructed
  /\ profile \in InitialProfiles
  /\ profile0 = profile
  /\ source_zshrc \in SourceZshrcs
  /\ backup = NoneValue
  /\ launchd = {}
  /\ last = NoRun
  /\ prev = NoRun
  /\ nruns = 0

\* One run r of the step or helper func on the shell profile.
ProfileRun(func, line, r) ==
  /\ nruns' = nruns + 1
  /\ profile' = r.file
  /\ prev' = IF last.func = "add_to_shell_profile" THEN last ELSE NoRun
  /\ last' = [func |-> func, line |-> line, before |-> profile, loaded |-> launchd,
              written |-> FALSE, invoked |-> r.invoked, items |-> r.items,
              ret |-> r.ret, exc |-> r.exc, after |-> r.file]
  /\ backup' = IF "backup" \in DOMAIN r THEN r.backup ELSE backup
  /\ UNCHANGED << profile0, source_zshrc, launchd >>
  /\ UNCHANGED << args, system, macos_version, success_items, failed_items, pc,
                  selected_steps, step_no, exit_code, stdout, current, selected,
                  keys, prompts, faults, log, typed >>

AddToShellProfile ==
  /\ nruns < MaxRuns
  /\ \E line \in ProfileLines, io \in FileIO :
       LET r == add_to_shell_profile(profile, line, io)
       IN ProfileRun("add_to_shell_profile", line,
                     StepRun(<<Attempt(0, "open", io)>>, Returns(<<>>, r.ret), r.file))

EnsureNvmInProfile ==
  /\ nruns < MaxRuns
  /\ \E io \in FileIO :
       ProfileRun("ensure_nvm_in_profile", <<>>,
                  StepRun(<<Attempt(0, "open", io)>>, Returns(<<>>, FALSE),
                          ensure_nvm_in_profile(profile, io)))

InstallPythonViaHomebrew ==
  /\ nruns < MaxRuns
  /\ \E r \in install_python_via_homebrew_runs(profile) :
       ProfileRun("install_python_via_homebrew", <<>>, r)

CopyZshrc ==
  /\ nruns < MaxRuns
  /\ \E r \in copy_zshrc_runs(profile, source_zshrc, backup) :
       ProfileRun("copy_zshrc", <<>>, r)

\* A run of a chain seen from the shell profile: what it leaves in the file.
ProfileAfter(r) == StepRun(<<>>, Returns(<<>>, r.ret = "True"), r.file)

NvmWritesProfile ==
  /\ nruns < MaxRuns
  /\ \E r \in setup_nvm_and_node_runs(profile) :
       ProfileRun("setup_nvm_and_node", <<>>, ProfileAfter(r))

VscodeWritesProfile ==
  /\ nruns < MaxRuns
  /\ \E r \in setup_vscode_cli_runs(profile) :
       ProfileRun("setup_vscode_cli", <<>>, ProfileAfter(r))

ProfileNext ==
  \/ CopyZshrc
  \/ AddToShellProfile
  \/ EnsureNvmInProfile
  \/ InstallPythonViaHomebrew
  \/ NvmWritesProfile
  \/ VscodeWritesProfile

\* Runs of the steps and helpers that write to the shell profile, in any order.
ProfileSpec == ProfileInit /\ [][ProfileNext]_vars

\* ========================================================== fallback chains
ChainInit ==
  /\ Constructed
  /\ profile \in InitialProfiles
  /\ profile0 = profile
  /\ source_zshrc = NoneValue
  /\ backup = NoneValue
  /\ launchd = {}
  /\ last = NoRun
  /\ prev = NoRun
  /\ nruns = 0

SetupNvmAndNode ==
  /\ nruns < MaxRuns
  /\ \E r \in setup_nvm_and_node_runs(profile) : ProfileRun("setup_nvm_and_node", <<>>, r)

InstallClaudeCode ==
  /\ nruns < MaxRuns
  /\ \E r \in install_claude_code_runs(profile) : ProfileRun("install_claude_code", <<>>, r)

SetupVscodeCli ==
  /\ nruns < MaxRuns
  /\ \E r \in setup_vscode_cli_runs(profile) : ProfileRun("setup_vscode_cli", <<>>, r)

ChainNext ==
  \/ SetupNvmAndNode
  \/ InstallClaudeCode
  \/ SetupVscodeCli

\* Runs of the three steps that try alternatives, command by command.
ChainSpec == ChainInit /\ [][ChainNext]_vars

\* ==================================================== background-job installers
Labels == {KillAppleMediaTrackingLabel, DownloadRecyclerLabel}

LaunchdInit ==
  /\ Constructed
  /\ profile = NoneValue
  /\ profile0 = NoneValue
  /\ source_zshrc = NoneValue
  /\ backup = NoneValue
  /\ launchd \in SUBSET Labels
  /\ last = NoRun
  /\ prev = NoRun
  /\ nruns = 0

\* One run r of the installer func against the supervisor.
LaunchdRun(func, r) ==
  /\ nruns' = nruns + 1
  /\ launchd' = r.loaded
  /\ prev' = NoRun
  /\ last' = [func |-> func, line |-> <<>>, before |-> profile, loaded |-> launchd,
              written |-> r.written, invoked |-> r.invoked, items |-> r.items,
              ret |-> r.ret, exc |-> r.exc, after |-> profile]
  /\ UNCHANGED << profile, profile0, source_zshrc, backup >>
  /\ UNCHANGED << args, system, macos_version, success_items, failed_items, pc,
                  selected_steps, step_no, exit_code, stdout, current, selected,
                  keys, prompts, faults, log, typed >>

SetupKillAppleMediaTracking ==
  /\ nruns < MaxRuns
  /\ \E r \in setup_kill_apple_media_tracking_runs(launchd) :
       LaunchdRun("setup_kill_apple_media_tracking", r)

SetupDownloadRecycler ==
  /\ nruns < MaxRuns
  /\ \E r \in setup_download_recycler_runs(launchd) :
       LaunchdRun("setup_download_recycler", r)

LaunchdNext ==
  \/ SetupKillAppleMediaTracking
  \/ SetupDownloadRecycler

\* Runs of the two background-job installers against one supervisor.
LaunchdSpec == LaunchdInit /\ [][LaunchdNext]_vars

\* ======================================================== the checkbox menu
\* The checkbox menu open with every entry checked, as display_checkbox_menu
\* opens it, after the operator has moved the cursor to any entry.
MenuInit ==
  /\ args = [list |-> FALSE, all |-> FALSE, no_confirm |-> FALSE, select |-> NoneValue]
  /\ system = "Darwin"
  /\ macos_version = Some(<<15, 0>>)
  /\ success_items = <<>>
  /\ failed_items = <<>>
  /\ pc = "checkbox"
  /\ selected_steps = NoneValue
  /\ step_no = 0
  /\ exit_code = -1
  /\ stdout = <<>>
  /\ current \in 0..(Len(steps) - 1)
  /\ selected = [k \in 1..Len(steps) |-> TRUE]
  /\ keys = 0
  /\ prompts = 0
  /\ faults = 0
  /\ log = << Event("menu", 0, <<>>, "") >>
  /\ typed = NoneValue
  /\ profile = NoneValue
  /\ profile0 = NoneValue
  /\ source_zshrc = NoneValue
  /\ backup = NoneValue
  /\ launchd = {}
  /\ last = NoRun
  /\ prev = NoRun
  /\ nruns = 0

MenuNext ==
  /\ UNCHANGED machine
  /\ \/ KeyUp
     \/ KeyDown
     \/ KeySpace
     \/ KeySelectAll
     \/ KeySelectNone
     \/ KeyOther
     \/ KeyEnter
     \/ KeyQuit

\* The keys pressed in the checkbox menu, from any position of the cursor.
MenuSpec == MenuInit /\ [][MenuNext]_vars

\* =========================================================== properties
IsCall(e) == e.ev = "call"

\* The calls of step actions made so far, in order, and their catalog positions.
Calls == SelectSeq(log, IsCall)
Invoked == LET calls == Calls IN [k \in 1..Len(calls) |-> calls[k].step]

IsPrefix(a, b) == Len(a) <= Len(b) /\ SubSeq(b, 1, Len(a)) = a

Happened(ev) == \E k \in 1..Len(log) : log[k].ev = ev
NoCalls == \A k \in 1..Len(log) : log[k].ev # "call"
WasInterrupted == \E k \in 1..Len(log) : IsCall(log[k]) /\ log[k].exc = "KeyboardInterrupt"
LedgerEmpty == success_items = <<>> /\ failed_items = <<>>

\* The sizes of the ledger lists just before history entry k.
SuccessesBefore(k) == IF k = 1 THEN 0 ELSE log[k - 1].successes
FailuresBefore(k) == IF k = 1 THEN 0 ELSE log[k - 1].failures
\* By how many entries history entry k grew the ledger.
Grown(k) ==
  (log[k].successes + log[k].failures) - (SuccessesBefore(k) + FailuresBefore(k))

\* The history's sizes are the ledger's.
LedgerRecorded ==
  IF log = <<>> THEN LedgerEmpty
  ELSE /\ Len(success_items) = log[Len(log)].successes
       /\ Len(failed_items) = log[Len(log)].failures

\* The executor loop was entered: the platform check ran and did not exit.
ReachedExecutor == Happened("compat") /\ (pc = "run" \/ Happened("call") \/ Happened("summary"))

\* Structure of the state, and the bounding device: every step can end by its
\* first-run outcome, so the fault budget never blocks a run.
TypeOK ==
  /\ pc \in {"main", "checkbox", "simple", "selected", "confirm", "compat", "run", "exited"}
  /\ exit_code \in {-1, 0, 1, 130}
  /\ (pc = "exited") = (exit_code # -1)
  /\ faults \in 0..MaxFaults
  /\ \A k \in 1..Len(steps) : FirstRunOutcome(steps[k].func) \in Call(steps[k].func)
  /\ (pc = "run" => selected_steps.some /\ step_no \in 1..(Len(selected_steps.v) + 1))
  /\ LedgerRecorded

\* C1: in main's loop every selected step's action is invoked, in selection
\* order, whatever the earlier steps did (returned True, returned False or
\* raised an Exception): the j-th call made is the call of the j-th entry of
\* the selection, a call that was not interrupted is followed by the next
\* entry, and a run that ends without an operator interrupt has called every
\* selected step.
C1_EveryStepInvoked ==
  /\ \A k \in 1..Len(log) :
       IsCall(log[k]) =>
         /\ selected_steps.some
         /\ log[k].pos \in 1..Len(selected_steps.v)
         /\ log[k].step = selected_steps.v[log[k].pos]
         /\ log[k].pos = IF k > 1 /\ IsCall(log[k - 1]) THEN log[k - 1].pos + 1 ELSE 1
         /\ (k > 1 /\ IsCall(log[k - 1]) => log[k - 1].exc # "KeyboardInterrupt")
  /\ (pc = "run" => Len(Invoked) = step_no - 1 /\ ~WasInterrupted)
  /\ (pc = "exited" /\ ReachedExecutor /\ ~WasInterrupted
        => Invoked = selected_steps.v /\ Happened("summary"))

\* C1 witness: a finished run in which a step raised an Exception and
\* the steps after it were still called, to the end of the selection.
C1_Witness ==
  /\ pc = "exited"
  /\ Happened("summary")
  /\ Len(Invoked) >= 3
  /\ \E k \in 1..(Len(log) - 1) :
       /\ IsCall(log[k]) /\ log[k].exc \notin {"", "KeyboardInterrupt"}
       /\ IsCall(log[k + 1]) /\ log[k + 1].exc = ""
  /\ Invoked = selected_steps.v

RaisedException(c) == IsCall(c) /\ c.exc \notin {"", "KeyboardInterrupt"}
OneSuccess(c) ==
  IsCall(c) /\ c.exc = "" /\ Len(c.items) = 1 /\ c.items[1].kind = "success"

\* C2: a step whose action raises an Exception gets exactly one failure entry
\* from the executor, "<step name> (error: <exception>)", as the newest failure;
\* the successes stay as they were, and a finished run of [ok, raises, ok]
\* holds two successes and one failure.
C2_ExceptionIsOneFailure ==
  /\ LedgerRecorded
  /\ \A k \in 1..Len(log) :
       RaisedException(log[k]) =>
         /\ log[k].failures = FailuresBefore(k) + 1
         /\ log[k].successes = SuccessesBefore(k)
         /\ failed_items[log[k].failures]
              = << steps[log[k].step].name, " (error: ", log[k].exc, ")" >>
  /\ LET calls == Calls
     IN (Len(calls) = 3 /\ OneSuccess(calls[1]) /\ RaisedException(calls[2])
           /\ OneSuccess(calls[3]))
          => Len(success_items) = 2 /\ Len(failed_items) = 1

\* C2 witness: the finished run [ok, raises, ok] of --select 1,11,5.
C2_Witness ==
  /\ pc = "exited"
  /\ Happened("summary")
  /\ Invoked = <<1, 11, 5>>
  /\ LET calls == Calls
     IN OneSuccess(calls[1]) /\ RaisedException(calls[2]) /\ OneSuccess(calls[3])
  /\ Len(success_items) = 2
  /\ failed_items = << <<"GitHub CLI", " (error: ", "PermissionError", ")">> >>

\* The calls that returned or raised an Exception (not cut short by Ctrl-C).
Completed(c) == IsCall(c) /\ c.exc # "KeyboardInterrupt"

TwoEntrySteps ==
  { "install_nvm", "install_vscode", "configure_vscode_extensions", "install_dark_mode_toggle" }

SelectTokens == Split(args.select.v)
SelectIsEffective == ~args.list /\ ~args.all /\ Truthy(args.select)
NamedPositions ==
  LET tokens == SelectTokens
  IN { ParseInt(tokens[k]).val : k \in {j \in 1..Len(tokens) : ParseInt(tokens[j]).ok} }

\* The catalog positions in a set, each once, in catalog order.
CatalogOrder(S) == SelectedPositions([k \in 1..Len(steps) |-> k \in S], 1)

\* C4 as stated: a --select list of in-range indices resolves to the chosen
\* steps, each once, in catalog order, whatever the order typed.
C4_SelectIsCatalogOrderDedup ==
  (SelectIsEffective /\ selected_steps.some)
    => selected_steps.v = CatalogOrder(NamedPositions)

\* C5 as stated: in any run the step actions are invoked in strictly
\* increasing catalog position.
C5_InvokedInCatalogOrder ==
  \A k \in 2..Len(log) :
    IsCall(log[k]) /\ IsCall(log[k - 1]) => log[k - 1].step < log[k].step

\* A --select value that names an out-of-range index: some token is an
\* integer outside 1..N.
SelectNamesOutOfRange ==
  /\ args.select.some
  /\ \E p \in NamedPositions : p < 1 \/ p > Len(steps)

\* C6 as stated: any --select value with an out-of-range index, at any
\* position, makes the process exit non-zero without invoking any step.
C6_OutOfRangeSelectIsFatal ==
  SelectNamesOutOfRange =>
    /\ pc \in {"main", "exited"}
    /\ (pc = "exited" => exit_code # 0)
    /\ NoCalls

\* C6 (amended): when --select is the surface in effect (neither --list nor
\* --all is given), a value with an out-of-range index at any position makes
\* the process exit with status 1: no selection is made, no prompt is shown, the
\* platform check does not run, no step action is invoked and the ledger stays
\* empty.
C6_EffectiveOutOfRangeSelectIsFatal ==
  (SelectIsEffective /\ SelectNamesOutOfRange) =>
    /\ pc \in {"main", "exited"}
    /\ (pc = "exited" => exit_code = 1)
    /\ ~selected_steps.some
    /\ NoCalls
    /\ ~Happened("compat")
    /\ LedgerEmpty

\* C6 witness: --select 1,16 (in range first, out of range second) has exited
\* with status 1.
C6_Witness ==
  /\ SelectIsEffective
  /\ args.select.v = <<"1", ",", "1", "6">>
  /\ pc = "exited"
  /\ exit_code = 1
  /\ NoCalls

\* C7 as stated: every run that reaches the executor exits with status 1 if
\* the failures ledger is non-empty at its end and with status 0 otherwise.
C7_ExitStatusIffFailures ==
  (pc = "exited" /\ ReachedExecutor) =>
    /\ exit_code \in {0, 1}
    /\ (exit_code = 1) = (failed_items # <<>>)

\* C7 (amended): every run whose executor loop runs to its end (no step is
\* interrupted by the operator) exits with status 1 if the failures ledger is
\* non-empty at the end of the run, and with status 0 otherwise.
C7_CompletedRunExitStatus ==
  (pc = "exited" /\ ReachedExecutor /\ ~WasInterrupted) =>
    /\ Happened("summary")
    /\ exit_code \in {0, 1}
    /\ (exit_code = 1) = (failed_items # <<>>)

\* C7 witness: a finished run with successes and a failure has exited with 1.
C7_Witness ==
  /\ pc = "exited"
  /\ Happened("summary")
  /\ success_items # <<>>
  /\ failed_items # <<>>
  /\ exit_code = 1

\* The numbered lines of the output, as (number, name) pairs in print order.
IsNumbered(l) == l.nums # <<>>
NumberedLines ==
  LET ls == SelectSeq(stdout, IsNumbered)
  IN [k \in 1..Len(ls) |-> << ls[k].nums[1], ls[k].text[1] >>]

\* C8: with --list the output enumerates every registered step exactly once,
\* numbered 1..N in registration order, and the process ends with status 0
\* without invoking a step action, running the platform check, resolving a
\* selection or touching the ledger.
C8_ListPrintsCatalogAndExits ==
  args.list =>
    /\ pc \in {"main", "exited"}
    /\ (pc = "exited" =>
          /\ exit_code = 0
          /\ NumberedLines = [k \in 1..Len(get_installation_steps) |->
                                << k, get_installation_steps[k].name >>]
          /\ Len(stdout) = 2 * Len(get_installation_steps))
    /\ NoCalls
    /\ ~Happened("compat")
    /\ ~selected_steps.some
    /\ LedgerEmpty

\* C8 witness: --list given together with --all and an invalid --select has
\* printed the 15 steps and exited.
C8_Witness ==
  /\ args.list /\ args.all /\ args.select = Some(<<"1", "6">>)
  /\ pc = "exited"
  /\ Len(NumberedLines) = 15
  /\ NumberedLines[15] = << 15, "Download Recycler" >>

\* C9: when the selection surface returns None (Q in the checkbox menu, 'q' or
\* Ctrl-C in the line-based menu) main exits with status 0; no step action has
\* been invoked, the platform check has not run and the ledger is empty.
C9_CancelExitsCleanly ==
  Happened("cancelled") =>
    /\ pc = "exited"
    /\ exit_code = 0
    /\ ~selected_steps.some
    /\ NoCalls
    /\ ~Happened("compat")
    /\ ~Happened("confirmed")
    /\ LedgerEmpty

\* C9 witness: a cancelled session has exited.
C9_Witness ==
  /\ Happened("cancelled")
  /\ Happened("menu")
  /\ pc = "exited"
  /\ stdout = << Line(<<"Setup cancelled.">>, <<>>) >>

\* The platform the tool refuses: not macOS, or macOS below 15.
Incompatible == system # "Darwin" \/ macos_version.v[1] < 15

\* C10: the platform check runs at most once, after the selection is made and
\* (unless --no-confirm) confirmed, and before the first step; every call of a
\* step action comes after it; on a platform other than macOS 15 or later it
\* ends the process with status 1 and no step action is ever invoked.
C10_PlatformCheckGatesRun ==
  /\ \A j, k \in 1..Len(log) : log[j].ev = "compat" /\ log[k].ev = "compat" => j = k
  /\ \A k \in 1..Len(log) :
       log[k].ev = "compat" =>
         /\ \E j \in 1..(k - 1) : log[j].ev = "selected"
         /\ (~args.no_confirm => log[k - 1].ev = "confirmed")
         /\ \A j \in 1..(k - 1) : ~IsCall(log[j])
  /\ \A k \in 1..Len(log) :
       IsCall(log[k]) => \E j \in 1..(k - 1) : log[j].ev = "compat"
  /\ (pc = "run" => Happened("compat"))
  /\ (Incompatible =>
        /\ NoCalls
        /\ pc # "run"
        /\ LedgerEmpty
        /\ (Happened("compat") => pc = "exited" /\ exit_code = 1))

\* C10 witness: on macOS 14 a confirmed selection has reached the platform
\* check and the process has exited with status 1.
C10_Witness ==
  /\ system = "Darwin"
  /\ macos_version.v[1] = 14
  /\ Happened("confirmed")
  /\ Happened("compat")
  /\ pc = "exited"
  /\ exit_code = 1
  /\ NoCalls

\* ------------------------------------------------- the shell profile (C11-C12)
\* s is a whole line of content at position i.
IsLineAt(content, s, i) ==
  /\ OccursAt(content, s, i)
  /\ (i = 1 \/ content[i - 1] = NL)
  /\ (i + Len(s) - 1 = Len(content) \/ content[i + Len(s)] = NL)
\* How many lines of the file are s, and how many times s occurs in it at all.
LineCount(file, s) == Cardinality({ i \in 1..Len(file.v) : IsLineAt(file.v, s, i) })
Count(file, s) == Cardinality(Occurrences(file.v, s))

IsAdd(r) == r.func = "add_to_shell_profile"
\* The profile could be read and written during run r.
NoFileError(r) == \A j \in 1..Len(r.invoked) : r.invoked[j].result = "ok"
\* add_to_shell_profile has just been called twice in a row with the same line.
CalledTwice ==
  /\ IsAdd(prev) /\ IsAdd(last) /\ prev.line = last.line
  /\ NoFileError(prev) /\ NoFileError(last)

\* C11: calling add_to_shell_profile twice with the same line leaves the file
\* after the second call identical to the file after the first call, the line
\* is then exactly one line of the file, the first call returns True only if
\* it appended, and the second call returns False.
C11_AddTwiceIsIdempotent ==
  CalledTwice =>
    /\ last.after = prev.after
    /\ LineCount(last.after, last.line) = 1
    /\ (prev.ret = "True" => prev.after # prev.before)
    /\ last.ret = "False"

\* The lines the steps write to the shell profile.
LogicalLines == { PythonAlias, nvm_lines[1], nvm_lines[2], nvm_lines[3], VscodePathLine }

\* C12: after any number of runs of the steps that write to the shell profile,
\* in any order, each logical line (the python alias, each of the three NVM
\* lines, the VS Code PATH export) occurs at most once in the file, given that
\* it occurred at most once in the file before the tool first ran and occurs at
\* most once in the .zshrc that copy_zshrc installs.
C12_LogicalLinesAtMostOnce ==
  \A l \in LogicalLines :
    (Count(profile0, l) <= 1 /\ Count(source_zshrc, l) <= 1) => Count(profile, l) <= 1

\* C12 witness: setup_nvm_and_node ran twice on a profile without the NVM
\* lines; the first run wrote them and the second left the file alone.
C12_Witness ==
  /\ nruns = 2
  /\ last.func = "setup_nvm_and_node"
  /\ Count(profile0, nvm_lines[1]) = 0
  /\ \A k \in 1..3 : Count(last.before, nvm_lines[k]) = 1
  /\ last.after = last.before
  /\ last.ret = "True"

\* ------------------------------------------------ fallback chains (C13-C14)
ChainFuncs == {"install_claude_code", "setup_vscode_cli", "setup_nvm_and_node"}
IsChainRun == last.func \in ChainFuncs

\* The alternatives of each chain, as listed in its code.
Alternatives(func) ==
  CASE func = "install_claude_code" -> 1..2
    [] func = "setup_vscode_cli" -> 1..3
    [] func = "setup_nvm_and_node" -> 1..2

\* The success each alternative records.
ChainSuccess(func, alt) ==
  CASE func = "install_claude_code" /\ alt = 1 -> <<"Claude Code installed via Homebrew">>
    [] func = "install_claude_code" /\ alt = 2 -> <<"Claude Code installed via official installer">>
    [] func = "setup_vscode_cli" /\ alt = 1 ->
         <<"'code' command set up via ", "creating symlink in /usr/local/bin">>
    [] func = "setup_vscode_cli" /\ alt = 2 ->
         <<"'code' command set up via ", "creating symlink in homebrew bin">>
    [] func = "setup_vscode_cli" /\ alt = 3 -> <<"'code' command added to PATH">>
    [] func = "setup_nvm_and_node" /\ alt = 1 -> <<"Node.js LTS installed via NVM">>
    [] func = "setup_nvm_and_node" /\ alt = 2 ->
         <<"Node.js LTS installed via NVM (fallback method)">>

\* Attempt j is the last command of its alternative in the latest run.
EndsAlternative(j) ==
  j = Len(last.invoked) \/ last.invoked[j + 1].alt # last.invoked[j].alt

\* C13: in every fallback chain the alternatives are attempted strictly in
\* their listed order, starting with the first; the chain goes on to the next
\* alternative only after the one before has failed; when an alternative
\* succeeds the chain records that alternative's success, returns True and
\* invokes nothing more.
C13_ChainStopsAtFirstSuccess ==
  IsChainRun =>
    LET inv == last.invoked
    IN /\ (inv # <<>> => inv[1].alt = 1)
       /\ \A j \in 1..(Len(inv) - 1) :
            \/ inv[j + 1].alt = inv[j].alt /\ inv[j].result = "ok"
            \/ inv[j + 1].alt = inv[j].alt + 1 /\ inv[j].result # "ok"
       /\ \A j \in 1..Len(inv) : inv[j].alt \in Alternatives(last.func)
       /\ (inv # <<>> /\ inv[Len(inv)].result = "ok" =>
             /\ last.ret = "True"
             /\ last.items = << Success(ChainSuccess(last.func, inv[Len(inv)].alt)) >>)
       /\ (inv # <<>> /\ last.ret = "True" => inv[Len(inv)].result = "ok")

\* C13 witness: setup_vscode_cli with [fail, fail, succeed].
C13_Witness ==
  /\ last.func = "setup_vscode_cli"
  /\ Len(last.invoked) = 3
  /\ last.invoked[1].result = "fail"
  /\ last.invoked[2].result = "code not found"
  /\ last.invoked[3].result = "ok"
  /\ last.ret = "True"

\* How an alternative fails: its command fails, the command it set up is not
\* found afterwards, or the approach raises inside the chain's try block.
FailedResults == {"fail", "code not found", "KeyError"}

\* Every alternative the latest run invoked has failed.
EveryInvokedAlternativeFailed ==
  /\ IsChainRun
  /\ last.invoked # <<>>
  /\ \A j \in 1..Len(last.invoked) :
       IF EndsAlternative(j) THEN last.invoked[j].result \in FailedResults
       ELSE last.invoked[j].result = "ok"

IsJobRun == last.func \in {"setup_kill_apple_media_tracking", "setup_download_recycler"}
JobLabel ==
  IF last.func = "setup_kill_apple_media_tracking"
    THEN KillAppleMediaTrackingLabel ELSE DownloadRecyclerLabel

\* The labels loaded just before command j of the latest run.
RECURSIVE LoadedBefore(_)
LoadedBefore(j) ==
  IF j = 1 THEN last.loaded
  ELSE Supervisor(LoadedBefore(j - 1), last.invoked[j - 1].cmd, JobLabel,
                  last.invoked[j - 1].result)

\* The supervisor worked during the latest run: each command got an answer that
\* fits the state the supervisor was in.
SupervisorWorked ==
  \A j \in 1..Len(last.invoked) :
    last.invoked[j].result \in Honest(LoadedBefore(j), last.invoked[j].cmd, JobLabel)

Commands == [j \in 1..Len(last.invoked) |-> last.invoked[j].cmd]

\* C15: for both background-job installers, from either supervisor state (label
\* never loaded, label already loaded), an invocation that writes its
\* descriptor and finds the supervisor working ends with the label loaded; no
\* invocation lets an exception escape; when the first load reports 'already
\* loaded' the installer runs unload and then load again, in that order, and
\* otherwise it runs nothing after a first load that was answered.
C15_InstallerEndsLoaded ==
  IsJobRun =>
    /\ last.ret # "raise"
    /\ (last.written /\ SupervisorWorked =>
          /\ JobLabel \in launchd
          /\ last.ret = "True")
    /\ (last.written /\ last.invoked[1].result \in AlreadyLoaded =>
          /\ Len(Commands) >= 2
          /\ SubSeq(Commands, 1, 2) = << "load", "unload" >>
          /\ (last.invoked[2].result \notin CommandErrors =>
                Commands = << "load", "unload", "load" >>))
    /\ (last.written /\ last.invoked[1].result \in {"ok", "error"} =>
          Commands = << "load" >>)
    /\ (~last.written => Commands = << >>)

\* C15 witness: the label was loaded before the run, the first load reported
\* 'already loaded', and after unload and load it is loaded.
C15_Witness ==
  /\ IsJobRun
  /\ JobLabel \in last.loaded
  /\ last.written
  /\ SupervisorWorked
  /\ last.invoked[1].result = "already loaded"
  /\ Commands = << "load", "unload", "load" >>
  /\ last.invoked[3].result = "ok"
  /\ JobLabel \in launchd

\* C15 witness of the other starting state: the label was never loaded.
C15_WitnessNeverLoaded ==
  /\ IsJobRun
  /\ JobLabel \notin last.loaded
  /\ last.written
  /\ SupervisorWorked
  /\ JobLabel \in launchd

TypedTokens(line) ==
  SelectSeq(Split(Strip(line)), LAMBDA t : Strip(t) # <<>>)

IsIntegerList(line) ==
  /\ TypedTokens(line) # <<>>
  /\ \A k \in 1..Len(TypedTokens(line)) : ParseInt(TypedTokens(line)[k]).ok

TypedValues(line) ==
  [k \in 1..Len(TypedTokens(line)) |-> ParseInt(TypedTokens(line)[k]).val]

\* A comma-separated list of in-range 1-based indices: no piece is blank and
\* each is a number of the catalog.
IsIndexList(line) ==
  /\ Len(TypedTokens(line)) = Len(Split(Strip(line)))
  /\ IsIntegerList(line)
  /\ \A k \in 1..Len(TypedValues(line)) : TypedValues(line)[k] \in 1..NumSteps

\* main has a selection that --select produced.
SelectedByFlag ==
  /\ pc = "selected"
  /\ typed = NoneValue
  /\ ~args.list /\ ~args.all /\ Truthy(args.select)

\* C17: for every comma-separated list of in-range 1-based indices, the
\* line-based menu and the --select flag resolve to the same selection, the
\* same steps in the same sequence: a list typed at the menu is accepted with
\* the selection --select computes for it, and a list given to --select is
\* accepted with the selection the menu returns for it.
C17_MenuAndFlagAgree ==
  /\ (typed.some /\ IsIndexList(typed.v)) =>
       /\ pc = "selected"
       /\ ParseIndices(Split(typed.v)).ok
       /\ ResolveSelect(ParseIndices(Split(typed.v)).indices).ok
       /\ selected_steps
            = Some(ResolveSelect(ParseIndices(Split(typed.v)).indices).chosen)
       /\ selected_steps = Some(TypedValues(typed.v))
  /\ (SelectedByFlag /\ IsIndexList(args.select.v)) =>
       /\ SimpleMenuLine(args.select.v).returns
       /\ selected_steps = SimpleMenuLine(args.select.v).ret
       /\ selected_steps = Some(TypedValues(args.select.v))

\* C17 witness: " 5, 1" typed at the menu selects step 5 and then step 1.
C17_Witness ==
  /\ pc = "selected"
  /\ typed = Some(<<" ", "5", ",", " ", "1">>)
  /\ selected_steps = Some(<<5, 1>>)

\* C17 witness on the other surface: --select " 5, 1" selects the same.
C17_WitnessFlag ==
  /\ SelectedByFlag
  /\ args.select = Some(<<" ", "5", ",", " ", "1">>)
  /\ selected_steps = Some(<<5, 1>>)

StrictlyIncreasing(s) == \A i, j \in 1..Len(s) : i < j => s[i] < s[j]

\* C18: the checkbox menu starts with every step checked; Enter returns
\* exactly the steps checked at that moment, in catalog order and each once;
\* Q returns None (and main exits with status 0) whatever is checked.
C18_CheckboxReturnsChecked ==
  [][ /\ (pc = "main" /\ pc' = "checkbox") =>
           /\ Len(selected') = NumSteps
           /\ \A k \in 1..NumSteps : selected'[k]
      /\ (pc = "checkbox" /\ pc' = "selected") =>
           /\ selected_steps'.some
           /\ StrictlyIncreasing(selected_steps'.v)
           /\ {selected_steps'.v[i] : i \in 1..Len(selected_steps'.v)}
                = {k \in 1..NumSteps : selected[k]}
      /\ (pc = "checkbox" /\ pc' = "exited") =>
           /\ selected_steps' = NoneValue
           /\ exit_code' = 0 ]_vars

\* C18 witness: after Down and Space, Enter has returned every step but the
\* second.
C18_Witness ==
  /\ pc = "selected"
  /\ typed = NoneValue
  /\ log # <<>> /\ log[1].ev = "menu"
  /\ selected_steps = Some([k \in 1..(NumSteps - 1) |-> IF k = 1 THEN 1 ELSE k + 1])

QuitLines == { <<"q">>, <<" ", "Q">> }
AllLines == { <<>>, <<" ">>, <<"a", "l", "l">>, <<"A", "l", "l", " ">> }
NoneLines == { <<"n", "o", "n", "e">>, <<"N", "O", "N", "E">> }

\* C19: at the line-based menu 'all' or an empty line returns the whole
\* catalog in catalog order, 'none' returns the empty list (a selection, not
\* None) and 'q' returns None; surrounding blanks and the case of the letters
\* make no difference.
C19_MenuWords ==
  typed.some =>
    /\ typed.v \in QuitLines =>
         /\ pc = "exited"
         /\ exit_code = 0
         /\ selected_steps = NoneValue
    /\ typed.v \in AllLines =>
         /\ pc = "selected"
         /\ selected_steps = Some([k \in 1..NumSteps |-> k])
    /\ typed.v \in NoneLines =>
         /\ pc = "selected"
         /\ selected_steps = Some(<<>>)

\* C19 witness: "NONE" has returned the empty selection.
C19_Witness ==
  /\ typed = Some(<<"N", "O", "N", "E">>)
  /\ pc = "selected"
  /\ selected_steps = Some(<<>>)

\* C19 witness: " Q" has cancelled the setup.
C19_WitnessQuit ==
  /\ typed = Some(<<" ", "Q">>)
  /\ pc = "exited"
  /\ selected_steps = NoneValue

\* C19 witness: "All " has returned the whole catalog.
C19_WitnessAll ==
  /\ typed = Some(<<"A", "l", "l", " ">>)
  /\ pc = "selected"
  /\ selected_steps = Some([k \in 1..NumSteps |-> k])

OutOfRangeValues(line) ==
  SelectSeq(TypedValues(line), LAMBDA v : v \notin 1..NumSteps)

\* C20: at the line-based menu a list of numbers with any out-of-range one
\* returns no selection and does not end the program: one message names all
\* the out-of-range values of that line, in the order typed, the in-range
\* ones are dropped, and the menu goes on to prompt again.
C20_OutOfRangeReprompts ==
  (typed.some /\ IsIntegerList(typed.v) /\ OutOfRangeValues(typed.v) # <<>>) =>
    /\ pc = "simple"
    /\ exit_code = -1
    /\ selected_steps = NoneValue
    /\ stdout = << Line(<<"Invalid selection(s): ">>, OutOfRangeValues(typed.v)) >>

\* C20 witness: "16,5,0" is answered with the two bad values 16 and 0.
C20_Witness ==
  /\ pc = "simple"
  /\ typed = Some(<<"1", "6", ",", "5", ",", "0">>)
  /\ selected_steps = NoneValue
  /\ stdout = << Line(<<"Invalid selection(s): ">>, <<16, 0>>) >>

\* ------------------------------------------ what the installers report
\* launchctl ended command j of the latest run with exit status zero.
ZeroStatus(j) ==
  /\ j <= Len(last.invoked)
  /\ last.invoked[j].cmd = "load"
  /\ last.invoked[j].result \notin NonZero \cup {"not found"} \cup CommandErrors

StartedTexts ==
  { <<"Apple media tracking killer script installed and started">>,
    <<"Download Recycler installed and scheduled (runs daily at 9:00 AM)">> }
LaterTexts ==
  { <<"Apple media tracking killer script installed (will start on next login)">>,
    <<"Download Recycler installed (will start on next login)">> }

Recorded(texts) == \E k \in 1..Len(last.items) : last.items[k].text \in texts

\* Every launchctl command of the latest run was answered or was not found.
EveryCommandAnswered ==
  \A j \in 1..Len(last.invoked) : last.invoked[j].result \notin CommandErrors

\* C21: a background-job installer records the 'installed and started' (or
\* 'scheduled') success only if the first launchctl load, or the load retried
\* after unload, ended with exit status zero; in every other case it records
\* the 'will start on next login' success.
C21_StartedOnlyIfLoadSucceeded ==
  (IsJobRun /\ last.written /\ EveryCommandAnswered) =>
    /\ Recorded(StartedTexts) => (ZeroStatus(1) \/ ZeroStatus(3))
    /\ ~(ZeroStatus(1) \/ ZeroStatus(3)) => Recorded(LaterTexts)

MissingTexts ==
  { <<"killapplemediatracking.sh not found in background_scripts directory">>,
    <<"download_recycler.sh not found in background_scripts directory">> }

\* C22: a background-job installer goes Absent -> Registered -> Loaded in
\* order: launchctl is run (load or unload) only in an invocation that has
\* written the service descriptor, the set of loaded labels changes only in
\* such an invocation, and when the source script is missing the descriptor is
\* not written and no launchctl command is run.
C22_LoadOnlyAfterDescriptor ==
  IsJobRun =>
    /\ last.invoked # <<>> => last.written
    /\ launchd # last.loaded => last.written
    /\ Recorded(MissingTexts) =>
         /\ ~last.written
         /\ last.invoked = <<>>
         /\ launchd = last.loaded
         /\ last.ret = "False"

\* C22 witness: the source script is missing; nothing is written or loaded.
C22_Witness ==
  /\ IsJobRun
  /\ Recorded(MissingTexts)
  /\ ~last.written
  /\ last.invoked = <<>>
  /\ JobLabel \notin launchd

\* C22 witness of the full path: the descriptor was written and the label,
\* not loaded before, is loaded by the first load.
C22_WitnessLoaded ==
  /\ IsJobRun
  /\ last.written
  /\ JobLabel \notin last.loaded
  /\ Commands = << "load" >>
  /\ JobLabel \in launchd

\* ------------------------------------------- how the profile is written
\* The text of a file, a missing file having none.
Content(file) == IF file.some THEN file.v ELSE <<>>

\* The routines that add lines to the shell profile, and the steps that call
\* them.
ProfileWriters ==
  { "add_to_shell_profile", "ensure_nvm_in_profile", "install_python_via_homebrew",
    "setup_nvm_and_node", "setup_vscode_cli" }

\* C23: add_to_shell_profile, ensure_nvm_in_profile (also as run by
\* setup_nvm_and_node) and the alias write of install_python_via_homebrew only
\* append: the content of the profile before the call, a missing file counting
\* as empty, is a prefix of its content after the call, whether the call
\* succeeds or fails, and an existing file is never removed.
C23_WritersOnlyAppend ==
  last.func \in ProfileWriters =>
    /\ IsPrefix(Content(last.before), Content(last.after))
    /\ last.before.some => last.after.some
    /\ last.after = profile

\* C23 witness: the alias was appended to a profile that had other content.
C23_Witness ==
  /\ last.func = "install_python_via_homebrew"
  /\ last.before = Some(<<"PS1=x">>)
  /\ last.after = Some(<<"PS1=x">> \o PythonAlias \o <<NL>>)

\* C23 witness: a missing profile is created with the line.
C23_WitnessMissing ==
  /\ IsAdd(last)
  /\ ~last.before.some
  /\ last.after = Some(<<NL>> \o last.line \o <<NL>>)

\* C23 witness: a failed write leaves the content as it was.
C23_WitnessFailure ==
  /\ last.func = "setup_nvm_and_node"
  /\ last.before = Some(<<"PS1=x">>)
  /\ last.after = last.before

\* C24: add_to_shell_profile decides by membership of the line among the
\* lines of the file: it appends the line if and only if no line of the file
\* equals it; a longer line that contains the text does not count.
C24_AppendsIffNoEqualLine ==
  (IsAdd(last) /\ NoFileError(last)) =>
    (last.after # last.before <=> LineCount(last.before, last.line) = 0)

\* The block ensure_nvm_in_profile appends: the header and the three lines.
NvmBlock ==
  <<NL>> \o NvmHeader \o <<NL>> \o nvm_lines[1] \o <<NL>> \o nvm_lines[2] \o <<NL>>
    \o nvm_lines[3] \o <<NL>>

\* How many of the three NVM lines the latest run added to the profile.
NvmLinesAdded ==
  Cardinality({ k \in 1..3 :
    Count(last.after, nvm_lines[k]) > Count(last.before, nvm_lines[k]) })

\* C25: ensure_nvm_in_profile writes the three NVM lines all or none: when
\* 'NVM_DIR' occurs anywhere in the profile nothing is written, otherwise the
\* three lines are written together (or, when the file cannot be read or
\* written, nothing is); it never adds only one or two of them. The same holds
\* when setup_nvm_and_node calls it.
C25_NvmBlockAllOrNothing ==
  last.func \in {"ensure_nvm_in_profile", "setup_nvm_and_node"} =>
    /\ NvmLinesAdded \in {0, 3}
    /\ In(NVM_DIR, Content(last.before)) => last.after = last.before
    /\ last.after # last.before =>
         /\ ~In(NVM_DIR, Content(last.before))
         /\ Content(last.after) = Content(last.before) \o NvmBlock
    /\ (last.func = "ensure_nvm_in_profile" /\ NoFileError(last)
          /\ ~In(NVM_DIR, Content(last.before))) =>
         Content(last.after) = Content(last.before) \o NvmBlock

\* C25 witness: the profile holds the first NVM line only, so the marker is
\* there and nothing is written.
C25_Witness ==
  /\ last.func = "ensure_nvm_in_profile"
  /\ NoFileError(last)
  /\ last.before = Some(nvm_lines[1] \o <<NL>>)
  /\ last.after = last.before

\* C25 witness: a profile without the marker gets the whole block.
C25_WitnessWritten ==
  /\ last.func = "ensure_nvm_in_profile"
  /\ last.before = Some(<<"PS1=x">>)
  /\ NvmLinesAdded = 3

\* The latest run recorded a success with this text.
RecordedSuccess(text) ==
  \E k \in 1..Len(last.items) : last.items[k] = Success(text)

\* C26: a failure while writing the shell profile is reported and is not a
\* crash: no exception leaves the step, and the step does not record the
\* success of a write that did not happen: after setup_vscode_cli records
\* "'code' command added to PATH" the PATH line is in the profile, and after
\* install_python_via_homebrew records "alias configured" the alias is.
C26_NoSuccessForFailedWrite ==
  /\ last.func = "setup_vscode_cli" =>
       /\ last.ret # "raise"
       /\ RecordedSuccess(<<"'code' command added to PATH">>) =>
            In(VscodePathLine, Content(last.after))
  /\ last.func = "install_python_via_homebrew" =>
       (RecordedSuccess(<<"Python installed and alias configured">>) =>
          In(PythonAlias, Content(last.after)))

\* ------------------------------------------------ malformed --select
\* A --select value with a token that is not an integer; the empty value is
\* one empty token.
SelectIsMalformed ==
  /\ args.select.some
  /\ \E k \in 1..Len(SelectTokens) : ~ParseInt(SelectTokens[k]).ok

\* C27 as stated: any malformed --select value makes the process exit with
\* status 1 without invoking any step.
C27_MalformedSelectIsFatal ==
  SelectIsMalformed =>
    /\ pc \in {"main", "exited"}
    /\ (pc = "exited" => exit_code = 1)
    /\ NoCalls

\* C27 (amended): when --select is the surface in effect (neither --list nor
\* --all is given and the value is not the empty string), a value with a token
\* that is not an integer, an empty token included, makes the process exit
\* with status 1: no selection is made, no menu or prompt is shown, the
\* platform check does not run, no step action is invoked and the ledger stays
\* empty.
C27_EffectiveMalformedSelectIsFatal ==
  (SelectIsEffective /\ SelectIsMalformed) =>
    /\ pc \in {"main", "exited"}
    /\ (pc = "exited" => exit_code = 1)
    /\ ~selected_steps.some
    /\ NoCalls
    /\ ~Happened("menu")
    /\ ~Happened("compat")
    /\ LedgerEmpty

\* C27 witness: --select 1,,5 (an empty token) has exited with status 1.
C27_Witness ==
  /\ SelectIsEffective
  /\ args.select.v = <<"1", ",", ",", "5">>
  /\ pc = "exited"
  /\ exit_code = 1
  /\ NoCalls

\* ---------------------------------------------- keys of the checkbox menu
InMenu == pc = "checkbox"
KeyPressed == pc = "checkbox" /\ pc' = "checkbox" /\ keys' = keys + 1

\* C28: in the checkbox menu the cursor stays within 0 <= cursor < number of
\* steps after any sequence of keys; Up moves it one entry up and Down one
\* entry down, except that Up at the first entry and Down at the last leave it
\* where it is (no wraparound); no other key moves it.
C28_CursorClamped ==
  /\ [](InMenu => current \in 0..(NumSteps - 1))
  /\ [][ /\ KeyPressed =>
              /\ current' \in 0..(NumSteps - 1)
              /\ current' - current \in {-1, 0, 1}
         /\ KeyUp => current' = (IF current = 0 THEN 0 ELSE current - 1)
         /\ KeyDown =>
              current' = (IF current = NumSteps - 1 THEN NumSteps - 1 ELSE current + 1)
         /\ (KeySpace \/ KeySelectAll \/ KeySelectNone \/ KeyOther) =>
              current' = current ]_vars

\* C28 witness: the cursor is on the last entry after a key was pressed there.
C28_Witness ==
  /\ InMenu
  /\ keys > 0
  /\ current = NumSteps - 1

\* C28 witness: the cursor is on the first entry after a key was pressed there.
C28_WitnessFirst ==
  /\ InMenu
  /\ keys > 0
  /\ current = 0

\* The flags with the one at cursor c (0-based) flipped.
Toggled(flags, c) == [k \in 1..Len(flags) |-> IF k = c + 1 THEN ~flags[k] ELSE flags[k]]

\* C29: in the checkbox menu Space flips the flag of the entry under the
\* cursor and nothing else, the cursor included, so that a second Space
\* restores the flags; Up and Down leave every flag as it is; A checks and N
\* unchecks every entry without moving the cursor.
C29_KeysChangeOnlyTheirPart ==
  [][ /\ KeySpace =>
           /\ current' = current
           /\ selected'[current + 1] = ~selected[current + 1]
           /\ \A k \in 1..NumSteps : k # current + 1 => selected'[k] = selected[k]
           /\ Len(selected') = NumSteps
           /\ Toggled(selected', current') = selected
      /\ (KeyUp \/ KeyDown) => selected' = selected
      /\ KeySelectAll =>
           /\ current' = current
           /\ selected' = [k \in 1..NumSteps |-> TRUE]
      /\ KeySelectNone =>
           /\ current' = current
           /\ selected' = [k \in 1..NumSteps |-> FALSE]
      /\ KeyPressed =>
           \/ selected' = selected
           \/ selected' = Toggled(selected, current) /\ current' = current
           \/ selected' = [k \in 1..NumSteps |-> TRUE] /\ current' = current
           \/ selected' = [k \in 1..NumSteps |-> FALSE] /\ current' = current ]_vars

\* C29 witness: two Spaces on the last entry; every entry is checked again.
C29_Witness ==
  /\ InMenu
  /\ keys = 2
  /\ current = NumSteps - 1
  /\ selected = [k \in 1..NumSteps |-> TRUE]

\* C29 witness: one Space has unchecked the fourth entry only.
C29_WitnessToggled ==
  /\ InMenu
  /\ keys = 1
  /\ current = 3
  /\ selected = [k \in 1..NumSteps |-> k # 4]

\* --------------------------------------------------- operator interrupt
WasInterruptedAt(k) == IsCall(log[k]) /\ log[k].exc = "KeyboardInterrupt"

\* How many failure entries the action of history entry k added itself.
OwnFailures(k) == Len(SelectSeq(log[k].items, LAMBDA i : i.kind = "failure"))

\* C30: a KeyboardInterrupt raised inside a step's action is not caught by the
\* executor's try block: it ends the process with a non-zero status, nothing
\* happens after it (no later step is invoked, no summary is printed), and the
\* executor records no failure entry for it: the failures are those the action
\* had recorded itself before the interrupt.
C30_InterruptPropagates ==
  \A k \in 1..Len(log) :
    WasInterruptedAt(k) =>
      /\ k = Len(log)
      /\ pc = "exited"
      /\ exit_code # 0
      /\ step_no = log[k].pos
      /\ Len(failed_items) = FailuresBefore(k) + OwnFailures(k)
      /\ \A j \in 1..Len(failed_items) :
           failed_items[j] # << steps[log[k].step].name, " (error: ", "KeyboardInterrupt", ")" >>

\* C30 witness: the first of several selected steps ran, the second was
\* interrupted, and the rest were never invoked.
C30_Witness ==
  /\ pc = "exited"
  /\ Len(log) > 0 /\ WasInterruptedAt(Len(log))
  /\ Len(Invoked) = 2
  /\ Len(selected_steps.v) > 2
  /\ failed_items = <<>>

\* ------------------------------------------------------------ copy_zshrc
\* C31: re-running never loses the user's original configuration: once
\* copy_zshrc has made a backup, after any number of further runs the backup
\* file still holds the content ~/.zshrc had before the tool's first run
\* (possibly followed by lines the tool's steps appended before the backup was
\* made).
C31_BackupKeepsOriginal ==
  backup.some => IsPrefix(Content(profile0), Content(backup))

\* C32: a logical line that the tool's steps wrote to the shell profile (it
\* was not in the file before the tool first ran and is in the file when a
\* step begins) is still in the file when that step ends: no step, copy_zshrc
\* included, removes it.
C32_WrittenLinesSurvive ==
  \A l \in LogicalLines :
    (Count(profile0, l) = 0 /\ Count(last.before, l) >= 1) => Count(last.after, l) >= 1

\* ------------------------------------------------------ flag precedence
\* C33: the flags are read in the order --list, --all, --select. With --list
\* no selection is made, no menu is shown, the --select value is not
\* rejected, no step is called and the process ends with status 0, whatever
\* --select holds. With --all and no --list the selection is the whole
\* catalog in catalog order and the --select value is neither rejected nor
\* used and no menu is shown. With neither and an empty --select string the
\* value is not rejected and main goes to the interactive menu.
C33_FlagPrecedence ==
  /\ args.list =>
       /\ selected_steps = NoneValue
       /\ ~Happened("selected") /\ ~Happened("menu") /\ ~Happened("bad_select")
       /\ NoCalls
       /\ pc \in {"main", "exited"}
       /\ pc = "exited" => (exit_code = 0 /\ Happened("list"))
  /\ (~args.list /\ args.all) =>
       /\ ~Happened("list") /\ ~Happened("menu") /\ ~Happened("bad_select")
       /\ pc # "main" =>
            /\ selected_steps = Some([k \in 1..Len(steps) |-> k])
            /\ log[1].ev = "selected"
  /\ (~args.list /\ ~args.all /\ args.select = Some(<<>>)) =>
       /\ ~Happened("list") /\ ~Happened("bad_select")
       /\ pc # "main" => log[1].ev = "menu"

\* C33 witness: --list with a --select value that names no step has ended
\* with status 0.
C33_Witness ==
  /\ args.list
  /\ args.select = Some(<<"-">>)
  /\ pc = "exited"
  /\ exit_code = 0
  /\ NoCalls

\* C33 witness: --all with an out-of-range --select value has run the last
\* step of the catalog.
C33_WitnessAll ==
  /\ ~args.list /\ args.all
  /\ args.select = Some(<<"1", "6">>)
  /\ \E k \in 1..Len(log) : log[k].ev = "call" /\ log[k].step = Len(steps)

\* C33 witness: an empty --select string has led to the line-based menu.
C33_WitnessEmpty ==
  /\ ~args.list /\ ~args.all
  /\ args.select = Some(<<>>)
  /\ pc = "simple"

\* --------------------------------------- input errors at the line prompt
NoInputLine == Line(<<"No input received. Using default (all components).">>, <<>>)
CancelledLine == Line(<<"Setup cancelled.">>, <<>>)

\* C34: when the prompt of the line-based menu has met the end of input
\* (the message of that except clause starts the output since) the menu has
\* returned the whole catalog in catalog order and main goes on with it;
\* when it has met Ctrl-C (the clause's message followed by main's) the menu
\* has returned None, no step is called and the process ends with status 0;
\* both whatever number of lines was read and refused before.
C34_EofSelectsAllInterruptCancels ==
  /\ (stdout # <<>> /\ stdout[1] = NoInputLine) =>
       /\ selected_steps = Some([k \in 1..Len(steps) |-> k])
       /\ Happened("selected") /\ ~Happened("cancelled")
       /\ Len(stdout) = 1 => pc = "selected"
  /\ (stdout = <<CancelledLine, CancelledLine>>) =>
       /\ pc = "exited"
       /\ exit_code = 0
       /\ selected_steps = NoneValue
       /\ log[Len(log)].ev = "cancelled"
       /\ NoCalls

\* C34 witness: the end of input came after refused lines; the whole catalog
\* is selected.
C34_Witness ==
  /\ stdout = <<NoInputLine>>
  /\ prompts = MaxPrompts
  /\ selected_steps = Some([k \in 1..Len(steps) |-> k])

\* C34 witness: Ctrl-C came after a refused line; the run is cancelled.
C34_WitnessInterrupt ==
  /\ stdout = <<CancelledLine, CancelledLine>>
  /\ prompts > 0
  /\ pc = "exited"
  /\ selected_steps = NoneValue

\* C34 witness: the end of input at the first prompt.
C34_WitnessFirstPrompt ==
  /\ stdout = <<NoInputLine>>
  /\ prompts = 0
  /\ pc = "selected"

\* ------------------------------------- when the line-based menu returns
\* The line as display_simple_menu compares it: stripped and in lower case.
TypedWord == Lower(Strip(typed.v))
MenuWords == { <<"q">>, <<"a", "l", "l">>, <<>>, <<"n", "o", "n", "e">> }

\* C35: a line typed at the line-based menu makes it return exactly when the
\* line is 'q', 'all', empty, 'none' or a list of at least one number, all in
\* range (blank pieces between commas are skipped). Every other line (a piece
\* that is no number, an out-of-range number, no number at all as in ",")
\* prints a message and leads to a new prompt with no selection made. The
\* empty selection is returned for 'none' only, None for 'q' only, and a
\* returned non-empty selection holds the typed in-range numbers.
C35_MenuReturnsOnlyOnValidLines ==
  typed.some =>
    /\ pc \in {"simple", "selected", "exited"}
    /\ pc # "simple" <=>
         \/ TypedWord \in MenuWords
         \/ IsIntegerList(typed.v) /\ OutOfRangeValues(typed.v) = <<>>
    /\ pc = "simple" =>
         /\ selected_steps = NoneValue
         /\ exit_code = -1
         /\ prompts >= 1
         /\ Len(stdout) = 1
    /\ pc = "exited" <=> TypedWord = <<"q">>
    /\ pc = "exited" => selected_steps = NoneValue /\ exit_code = 0
    /\ pc = "selected" =>
         /\ selected_steps.some
         /\ selected_steps.v = <<>> <=> TypedWord = <<"n", "o", "n", "e">>
         /\ (selected_steps.v # <<>> /\ TypedWord \notin MenuWords) =>
              /\ selected_steps.v = TypedValues(typed.v)
              /\ \A k \in 1..Len(selected_steps.v) : selected_steps.v[k] \in 1..NumSteps

\* C35 witness: "," holds no index; the menu says so and prompts again.
C35_Witness ==
  /\ typed = Some(<<",">>)
  /\ pc = "simple"
  /\ selected_steps = NoneValue
  /\ stdout = << Line(<<"No valid selections made.">>, <<>>) >>

\* C35 witness: "1,x" holds a piece that is no number.
C35_WitnessNotANumber ==
  /\ typed = Some(<<"1", ",", "x">>)
  /\ pc = "simple"
  /\ stdout = << Line(<<"Invalid input.">>, <<>>) >>

\* C35 witness: a list with a blank piece is accepted; "1," is returned as
\* step 1.
C35_WitnessReturned ==
  /\ typed = Some(<<"1", ",">>)
  /\ pc = "selected"
  /\ selected_steps = Some(<<1>>)

====
